---------------------------- MODULE Spec2Model ----------------------------
(***************************************************************************)
(* Crawl orchestration engine of the multi-source crawler: the article     *)
(* store with its unique link / hash columns, UniversalCrawler.crawlSource *)
(* with the per-backend crawl loop, saveArticle (existence check followed  *)
(* by INSERT OR IGNORE), option validation, the crawl_logs / crawl_history *)
(* tables, the one-level follow-up of internal links and the legacy        *)
(* /api/farsnews route with its recursive follow-up.                       *)
(*                                                                         *)
(* Strings are TLA+ strings; title + link is string concatenation.  Every  *)
(* await of the code is a step boundary: an action runs the synchronous    *)
(* code from one await to the next.                                        *)
(***************************************************************************)
EXTENDS Integers, Sequences, FiniteSets, TLC

VARIABLES
    site,       \* upstream content per source id: the list page's items
    articles,   \* table articles: set of rows
    lastID,     \* AUTOINCREMENT counter of table articles
    history,    \* table crawl_history: rows written, per run
    logs,       \* table crawl_logs: statuses written, per run
    run,        \* per crawlSource call: its locals and its position
    faults,     \* number of failed awaits injected so far
    active,     \* the requests that arrive in this behaviour
    web,        \* how many internal links every article page offers
    follow,     \* a call of UniversalCrawler.crawlInternalLinks
    legacy,     \* a request of the legacy route GET /api/farsnews
    pagePool,   \* UniversalCrawler.pagePool: how many idle pages it holds
    tests,      \* per testSelector call: its locals and its position
    schedules,  \* table schedules: the row of each schedule id
    scheduler,  \* the Scheduler object: this.jobs, and the tasks that
                \* cron.schedule has created
    calls,      \* per cron fire or runJob call: its locals and its position
    puts,       \* per request of the schedule routes: locals and position
    hashes,     \* the (title, link) pairs hashed so far, with their hash
    extracts,   \* a page, and what each extractor returned for it
    master,     \* the cluster master: clock, workers, workerRestarts, timers
    sessions,   \* one page pool with the identity of its pages, and the
                \* tasks that acquire from it and release to it
    opens,      \* the opens of URLs made: who opened, what the page
                \* answered, the navigations tried and the outcome
    sources,    \* table news_sources: the title selector of each row
    responses,  \* what POST /crawler/crawl answered, per request
    cleanup,    \* a call of CleanupService.performCleanup
    adapter     \* the DatabaseAdapter: its pool, its transaction client,
                \* and the requests that use it

\* the schedules table and the Scheduler
cronVars == <<schedules, scheduler, calls, puts>>

\* what neither crawlSource nor link follow-up touches
\* the state of the parts modelled last
\* cleanup and the database adapter
tail == <<cleanup, adapter>>

late == <<opens, sources, responses, tail>>

beyond == <<tests, cronVars, hashes, extracts, master, sessions, late>>

\* what crawlSource never touches
others == <<active, web, follow, legacy, pagePool, beyond>>

vars == <<site, articles, lastID, history, logs, run, faults, others>>

----------------------------------------------------------------------------
(* Bounds of the model *)

\* how many awaited operations (database calls, browser calls, list page
\* loads) may reject in one behaviour
MaxFaults == 2

\* concurrent crawlSource calls (scheduler fires, API requests)
Runs == {"r1", "r2"}

\* ids passed to crawlSource: 1 and 2 are active sources, 3 is an inactive
\* row of news_sources, 4 has no row
SourceIds == {1, 2, 3, 4}

----------------------------------------------------------------------------
(* Pure functions of the crawler *)

\* crypto md5 hex digest, taken as injective on the string it is applied to
Md5(s) == <<"md5", s>>

generateHash(title, link) == Md5(title \o link)

Min(a, b) == IF a < b THEN a ELSE b

\* destructuring default: `x = d` applies when the property is absent
Default(o, f, d) == IF f \in DOMAIN o THEN o[f] ELSE d

OutOfRange(v, lo, hi) == v \notin Int \/ v < lo \/ v > hi

FirstErrorOnly(o) ==
    IF OutOfRange(Default(o, "limit", 10), 1, 100) THEN <<"limit">>
    ELSE IF OutOfRange(Default(o, "crawlDepth", 0), 0, 5) THEN <<"crawlDepth">>
    ELSE IF OutOfRange(Default(o, "waitTime", 3000), 1000, 30000)
         THEN <<"waitTime">>
    ELSE IF OutOfRange(Default(o, "timeout", 180000), 30000, 900000)
         THEN <<"timeout">>
    ELSE IF OutOfRange(Default(o, "navigationTimeout", 120000), 30000, 900000)
         THEN <<"navigationTimeout">>
    ELSE <<>>

validateCrawlOptions(o) ==
    LET limit == Default(o, "limit", 10)
        crawlDepth == Default(o, "crawlDepth", 0)
        waitTime == Default(o, "waitTime", 3000)
        timeout == Default(o, "timeout", 180000)
        navigationTimeout == Default(o, "navigationTimeout", 120000)
    IN  (IF OutOfRange(limit, 1, 100) THEN <<"limit">> ELSE <<>>)
        \o (IF OutOfRange(crawlDepth, 0, 5) THEN <<"crawlDepth">> ELSE <<>>)
        \o (IF OutOfRange(waitTime, 1000, 30000) THEN <<"waitTime">> ELSE <<>>)
        \o (IF OutOfRange(timeout, 30000, 900000) THEN <<"timeout">> ELSE <<>>)
        \o (IF OutOfRange(navigationTimeout, 30000, 900000)
            THEN <<"navigationTimeout">> ELSE <<>>)

----------------------------------------------------------------------------
(* Storage: table articles (link UNIQUE, hash UNIQUE) behind the adapter *)

\* the id of no row (null; SQLite reports lastID 0 before any insert)
NoId == 0

ExistingByHash(rows, hash, link) == {a \in rows : a.hash = hash}

\* SELECT id FROM articles WHERE hash = ? OR link = ?
ExistingArticles(rows, hash, link) ==
    {a \in rows : a.hash = hash \/ a.link = link}

UniqueHashOnly(rows, row) == \E a \in rows : a.hash = row.hash

\* the UNIQUE constraints of CREATE TABLE articles
UniqueViolation(rows, row) ==
    \E a \in rows : a.link = row.link \/ a.hash = row.hash

\* INSERT OR IGNORE (SQLite) / ON CONFLICT DO NOTHING RETURNING id (Postgres):
\* the number of rows changed
InsertChanges(rows, row) == IF UniqueViolation(rows, row) THEN 0 ELSE 1

HasChangesByLastID(changes, lastId) == lastId # NoId

\* hasChanges of saveArticle's run callback: this.changes is a number on both
\* adapters (Postgres: rowCount || 0)
HasChanges(changes, lastId) ==
    IF changes \in Int THEN changes > 0 ELSE lastId # NoId

CountEverySave(n, isNew) == n + 1

\* if (saveResult.isNew) newArticlesCount++
NewCountAfter(n, isNew) == IF isNew THEN n + 1 ELSE n

----------------------------------------------------------------------------
(* Upstream content and the news_sources table *)

Item(link, title, open) == [link |-> link, title |-> title, open |-> open]

\* five list items, the third cannot be opened
SiteFive ==
    << Item("c", "a", TRUE), Item("bc", "b", TRUE), Item("d", "a", FALSE),
       Item("e", "a", TRUE), Item("f", "a", TRUE) >>

\* "a" + "bc" = "ab" + "c": two (title, link) pairs with one hash
SiteCollide == << Item("bc", "a", TRUE), Item("c", "ab", TRUE) >>

\* the link of another source's article under another title, an item
\* without a title, and a link listed twice
SiteOverlap ==
    << Item("c", "ab", TRUE), Item("g", "", TRUE), Item("c", "ab", TRUE) >>

SiteSame == << Item("c", "a", TRUE), Item("g", "a", TRUE) >>

Scenarios ==
    { [s \in {1, 2} |-> IF s = 1 THEN SiteFive ELSE SiteOverlap],
      [s \in {1, 2} |-> IF s = 1 THEN SiteCollide ELSE SiteSame],
      [s \in {1, 2} |-> IF s = 1 THEN SiteSame ELSE <<>>] }

\* SELECT * FROM news_sources WHERE id = ? AND active = true
SourceTable ==
    [id \in {1, 2, 3} |->
        [active |-> id # 3,
         crawler_type |-> IF id = 1 THEN "puppeteer" ELSE "cheerio"]]

getSourceInactiveToo(id) ==
    IF id \in DOMAIN SourceTable THEN {SourceTable[id]} ELSE {}

\* the rows the query yields: one row, or none (resolve(undefined))
getSource(id) ==
    IF id \in DOMAIN SourceTable /\ SourceTable[id].active
    THEN {SourceTable[id]} ELSE {}

----------------------------------------------------------------------------
(* crawlSource: one call per element of Runs *)

\* the context the adapter hands to the run callback: SQLite keeps the rowid
\* of the connection's last successful insert, Postgres has no RETURNING row
\* when nothing was inserted
CallbackLastID(isPostgres, changes, newId, staleId) ==
    IF changes > 0 THEN newId ELSE IF isPostgres THEN NoId ELSE staleId

\* ids of table schedules
ScheduleIds == {1, 2}

\* concurrent requests of the schedule routes
PutIds == {"u1", "u2"}

\* this.jobs[id] of an id without a job (undefined)
NoJob == 0

\* a row of table schedules (last_run: how often it has been written)
ScheduleRow(sourceId, cron, isActive, limit) ==
    [exists |-> TRUE, source_id |-> sourceId, cron_expression |-> cron,
     is_active |-> isActive, crawl_depth |-> 0, full_content |-> FALSE,
     article_limit |-> limit, timeout_ms |-> 30000, follow_links |-> TRUE,
     last_run |-> 0]

\* an id that has no row
NoRow == [ScheduleRow(0, "", FALSE, 0) EXCEPT !.exists = FALSE]

\* a slot of Runs before a cron fire or runJob uses it (wrote: this call
\* has written last_run)
NoCall ==
    [pc |-> "none", kind |-> "", id |-> 0, job |-> NoJob, source |-> 0,
     opts |-> [limit |-> 0], wrote |-> FALSE, returned |-> FALSE]

\* a slot of PutIds before a request uses it
NoPut ==
    [pc |-> "idle", route |-> "", id |-> 0, is_active |-> FALSE,
     schedule |-> {}]

\* the tasks that use one page pool at the same time: one more than the
\* pool keeps idle (this.maxConcurrentPages = 5)
TaskIds == {1, 2, 3, 4, 5, 6}

\* the page no task holds
NoPage == 0

\* an empty pool, no page created, no task started
NoSessions ==
    [idle |-> <<>>, closed |-> {}, poisoned |-> {},
     tasks |-> [c \in TaskIds |-> [pc |-> "idle", page |-> NoPage]]]

\* config.workers (WORKERS=2)
workers == 2

\* the most workers the master forks in a behaviour
MaxForks == 8

\* the master process before it has forked a worker
NoMaster ==
    [started |-> FALSE, exited |-> FALSE, now |-> 0, nextId |-> 1,
     live |-> {}, workerRestarts |-> [id \in 1..MaxForks + 1 |-> <<>>],
     timers |-> {}, restarted |-> [o \in 1..workers |-> <<>>]]

\* the extractors: the crawl methods of the two backends, and
\* UniversalCrawler.extractArticleContent
Extractors == {"cheerio", "puppeteer", "universal"}

\* no page loaded, nothing extracted
NoExtracts ==
    [loaded |-> FALSE, page |-> <<>>,
     selectors |-> [title_selector |-> "", content_selector |-> ""],
     fullContent |-> FALSE, results |-> [b \in Extractors |-> {}]]

\* concurrent testSelector calls (requests of the selector test routes)
TestIds == {"t1", "t2", "t3", "t4", "t5", "t6"}

\* testSelector before it is called (page: it holds an open page; taken:
\* what its steps added to the idle pool, -1 after a pop)
IdleTest == [pc |-> "idle", page |-> FALSE, taken |-> 0]

\* crawlInternalLinks before it is called
IdleFollow ==
    [pc |-> "idle", links |-> <<>>, sourceId |-> 0, currentDepth |-> 0,
     maxDepth |-> 0, i |-> 0, tasks |-> <<>>, results |-> <<>>,
     fetched |-> 0]

\* the route GET /api/farsnews before a request (fetched counts, for the
\* listed article at hand, the links followed at each depth)
IdleLegacy ==
    [pc |-> "idle", full |-> FALSE, limit |-> 0, crawlDepth |-> 0,
     list |-> <<>>, i |-> 0, phase |-> "seed",
     cur |-> [title |-> "", link |-> "", content |-> "", depth |-> 0],
     links |-> <<>>, stack |-> <<>>, crawled |-> <<>>, k |-> 0,
     newCount |-> 0, processed |-> 0, internal |-> 0,
     fetched |-> <<0, 0, 0>>, historyRows |-> <<>>]

\* a slot of Runs before crawlSource is called on it
IdleRun ==
    [pc |-> "idle", opts |-> [limit |-> 0], sourceId |-> 0, type |-> "",
     limit |-> 0, crawlDepth |-> 0,
     fullContent |-> TRUE, errors |-> <<>>, i |-> 0, extracted |-> <<>>,
     j |-> 0, newCount |-> 0, mainCount |-> 0, pagePool |-> 0,
     lastSave |-> [isNew |-> FALSE, id |-> NoId],
     result |-> [success |-> FALSE, error |-> "", newArticles |-> 0],
     touched |-> FALSE, after |-> {},
     created |-> FALSE, closeCalls |-> 0, page |-> "none",
     opened |-> <<>>, selector |-> "", used |-> <<>>]

\* no response sent yet
NoResponse == [status |-> 0, success |-> FALSE, new_articles |-> 0]

\* performCleanup not called
IdleCleanup ==
    [pc |-> "idle", keepCount |-> 0, totalArticles |-> 0, before |-> {},
     result |-> [deletedCount |-> 0, remainingCount |-> 0]]

\* the clients of the pg pool, and the requests that use the adapter
Clients == {1, 2}
Requests == {"q1", "q2"}

\* this.txClient = null
NoClient == 0

IdleRequest ==
    [pc |-> "idle", client |-> NoClient, holds |-> FALSE, sent |-> 0,
     began |-> 0]

\* the adapter after connect(): txClient null, every client in the pool
\* (queue: the queries each client has sent and the server has not run;
\* inTx, pending, committed, undone: the server's side; twice, owner:
\* records of what was done)
NoAdapter ==
    [txClient |-> NoClient,
     pool |-> [c \in Clients |-> "idle"],
     queue |-> [c \in Clients |-> <<>>],
     inTx |-> [c \in Clients |-> FALSE],
     owner |-> [c \in Clients |-> "none"],
     pending |-> [c \in Clients |-> {}],
     committed |-> {},
     undone |-> {},
     twice |-> FALSE,
     req |-> [q \in Requests |-> IdleRequest]]

\* empty tables, nothing called yet
Start ==
    /\ articles = {}
    /\ lastID = 0
    /\ history = [r \in Runs |-> <<>>]
    /\ logs = [r \in Runs |-> <<>>]
    /\ run = [r \in Runs |-> IdleRun]
    /\ faults = 0
    /\ follow = IdleFollow
    /\ legacy = IdleLegacy
    /\ pagePool = 0
    /\ tests = [t \in TestIds |-> IdleTest]
    /\ hashes = {}
    /\ extracts = NoExtracts
    /\ master = NoMaster
    /\ sessions = NoSessions
    /\ opens = {}
    /\ sources = [id \in DOMAIN SourceTable |-> "h1"]
    /\ responses = [r \in Runs |-> NoResponse]
    /\ cleanup = IdleCleanup
    /\ adapter = NoAdapter
    /\ scheduler = [loaded |-> FALSE, jobs |-> [id \in ScheduleIds |-> NoJob],
                    tasks |-> <<>>]
    /\ calls = [r \in Runs |-> NoCall]
    /\ puts = [u \in PutIds |-> NoPut]

Init ==
    /\ Start
    /\ schedules = [id \in ScheduleIds |-> NoRow]
    /\ site \in Scenarios
    /\ active = Runs
    /\ web = 0

CanFail == faults < MaxFaults

\* runs that had completed successfully on this source with this limit
Finished(s, limit) ==
    {q \in Runs : run[q].pc = "done" /\ run[q].sourceId = s
                  /\ run[q].limit = limit}

\* crawlSource up to its first await: destructuring, validation, and the
\* early return on invalid options
CrawlSource(r, sourceId, o) ==
    /\ r \in active
    /\ run[r].pc = "idle"
    /\ LET errs == validateCrawlOptions(o)
           limit == Default(o, "limit", 10)
       IN  run' = [run EXCEPT ![r] =
                IF errs # <<>>
                THEN [@ EXCEPT !.pc = "rejected", !.opts = o,
                        !.sourceId = sourceId, !.errors = errs,
                        !.result = [success |-> FALSE, error |-> "invalid",
                                    newArticles |-> 0]]
                ELSE [@ EXCEPT !.pc = "getSource", !.opts = o,
                        !.sourceId = sourceId, !.limit = limit,
                        !.crawlDepth = Default(o, "crawlDepth", 0),
                        !.fullContent = Default(o, "fullContent", TRUE),
                        !.after = Finished(sourceId, limit)]]
    /\ UNCHANGED <<others, site, articles, lastID, history, logs, faults>>

\* throw inside the outer try, outside the inner one: straight to the catch
\* at the run boundary
ToOuterCatch(r, msg) ==
    run' = [run EXCEPT ![r].pc = "outerCatch", ![r].result.error = msg,
                       ![r].touched = TRUE]

\* throw inside the inner try: catch (crawlerError), crawler.close() next
ToInnerCatch(r, msg) ==
    run' = [run EXCEPT ![r].pc = "innerCatch", ![r].result.error = msg]

\* await this.getSource(sourceId); if (!source) throw
GetSource(r) ==
    /\ run[r].pc = "getSource"
    /\ \/ /\ getSource(run[r].sourceId) = {}
          /\ ToOuterCatch(r, "not found")
          /\ UNCHANGED faults
       \/ /\ CanFail
          /\ ToOuterCatch(r, "storage")
          /\ faults' = faults + 1
       \/ /\ \E src \in getSource(run[r].sourceId) :
                run' = [run EXCEPT ![r].pc = "logStart",
                                   ![r].type = src.crawler_type,
                                   ![r].selector = sources[run[r].sourceId],
                                   ![r].touched = TRUE]
          /\ UNCHANGED faults
    /\ UNCHANGED <<others, site, articles, lastID, history, logs>>

\* await logger.logCrawlOperation(sourceId, 'start', 'running', ...), then
\* createCrawler(source)
LogStart(r) ==
    /\ run[r].pc = "logStart"
    /\ \/ /\ CanFail
          /\ ToOuterCatch(r, "storage")
          /\ faults' = faults + 1
          /\ UNCHANGED logs
       \/ /\ logs' = [logs EXCEPT ![r] = Append(@, "running")]
          /\ run' = [run EXCEPT ![r].pc = "open", ![r].created = TRUE]
          /\ UNCHANGED faults
    /\ UNCHANGED <<others, site, articles, lastID, history>>

----------------------------------------------------------------------------
(* crawler.crawl({limit, fullContent}) of the backend createCrawler chose *)

ListOf(r) == site[run[r].sourceId]

EveryLink(r) == Len(ListOf(r))

\* for (let i = 0; i < Math.min(links.length, limit); i++)
ItemBound(r) == Min(Len(ListOf(r)), run[r].limit)

\* position after the crawl loop: Puppeteer releases its page in `finally`
AfterItems(r) == IF run[r].type = "puppeteer" THEN "release" ELSE "save"

\* getOrCreatePage (Puppeteer; launches the browser) and the load of the
\* list page with the extraction of the candidate links
CrawlOpen(r) ==
    /\ run[r].pc = "open"
    /\ \/ /\ CanFail
          /\ run[r].type = "puppeteer"
          /\ ToInnerCatch(r, "backend")
          /\ faults' = faults + 1
       \/ /\ CanFail
          /\ faults' = faults + 1
          /\ IF run[r].type = "puppeteer"
             THEN run' = [run EXCEPT ![r].pc = "releaseThrow",
                                     ![r].page = "held",
                                     ![r].result.error = "navigation"]
             ELSE ToInnerCatch(r, "navigation")
       \/ /\ run' = [run EXCEPT
                ![r].pc = IF ItemBound(r) = 0 THEN AfterItems(r) ELSE "items",
                ![r].page = IF run[r].type = "puppeteer" THEN "held" ELSE @]
          /\ UNCHANGED faults
    /\ UNCHANGED <<others, site, articles, lastID, history, logs>>

\* what one pass of the loop body adds to `articles`: nothing when the page
\* cannot be opened (caught, logged) or when the title is empty
Extracted(item, fullContent) ==
    IF item.open /\ item.title # ""
    THEN << [title |-> item.title, link |-> item.link,
             content |-> IF fullContent THEN "text" ELSE ""] >>
    ELSE <<>>

SelectorReadAgain(held, stored) == stored

\* the title selector a pass of the loop hands to the page:
\* this.source.title_selector, of the row the crawler was made with
SelectorOfCrawler(held, stored) == held

LeavesLoop(i, bound, after) == after

\* where the run is after the pass i of the loop: i++ and the test
\* i < Math.min(links.length, limit) give another pass, or the loop is left
LoopNext(i, bound, after) == IF i + 1 < bound THEN "items" ELSE after

\* one pass of the loop: the item page is opened and read
CrawlItem(r) ==
    /\ run[r].pc = "items"
    /\ LET item == ListOf(r)[run[r].i + 1]
       IN  run' = [run EXCEPT
                ![r].extracted = @ \o Extracted(item, run[r].fullContent),
                ![r].opened = Append(@, item.link),
                ![r].used = Append(@, SelectorOfCrawler(
                                          run[r].selector,
                                          sources[run[r].sourceId])),
                ![r].i = @ + 1,
                ![r].pc = LoopNext(run[r].i, ItemBound(r), AfterItems(r))]
    /\ UNCHANGED <<others, site, articles, lastID, history, logs, faults>>

\* the page after crawler.close(): the pool is closed page by page, the
\* browser takes every page with it unless browser.close() fails
AfterClose(page, browserClosed) ==
    IF page = "none" THEN "none"
    ELSE IF browserClosed \/ page = "pooled" THEN "closed"
    ELSE page

CatchSkipsClose(n) == n

\* catch (crawlerError) { await crawler.close(); ... }
CatchCloses(n) == n + 1

\* PuppeteerCrawler.releasePage in crawl's `finally`: the page is reset and
\* pooled; a failed reset closes the page; a failed page.close() throws
ReleasePage(r) ==
    /\ run[r].pc \in {"release", "releaseThrow"}
    /\ LET next == IF run[r].pc = "release" THEN "save" ELSE "innerCatch"
       IN  \/ /\ run' = [run EXCEPT ![r].pc = next, ![r].pagePool = @ + 1,
                                      ![r].page = "pooled"]
              /\ UNCHANGED faults
           \/ /\ CanFail
              /\ run' = [run EXCEPT ![r].pc = next,
                                    ![r].page = "closed"]
              /\ faults' = faults + 1
           \/ /\ faults + 1 < MaxFaults
              /\ run' = [run EXCEPT ![r].pc = "innerCatch",
                                    ![r].page = "left",
                                    ![r].result.error = "page close"]
              /\ faults' = faults + 2
    /\ UNCHANGED <<others, site, articles, lastID, history, logs>>

----------------------------------------------------------------------------
(* saveArticle(sourceId, article), called for each extracted article *)

CurrentArticle(r) == run[r].extracted[run[r].j + 1]

\* the row the INSERT writes: depth is article.depth || 0
\* (by and runDepth are not columns: they record the call that inserted the
\* row and the crawlDepth it was given)
Row(id, sourceId, article, depth, by, crawlDepth) ==
    [id |-> id, source_id |-> sourceId, title |-> article.title,
     link |-> article.link, content |-> article.content,
     hash |-> generateHash(article.title, article.link), depth |-> depth,
     by |-> by, runDepth |-> crawlDepth]

\* what the run callback of the INSERT resolves with: {id, isNew}
InsertResult(isPostgres, row) ==
    LET changes == InsertChanges(articles, row)
        ctxLastID == CallbackLastID(isPostgres, changes, row.id, lastID)
        isNew == HasChanges(changes, ctxLastID)
    IN  [changes |-> changes, isNew |-> isNew,
         id |-> IF isNew THEN ctxLastID ELSE NoId]

StoreReplace(row, changes) ==
    /\ articles' = {a \in articles : a.link # row.link /\ a.hash # row.hash}
                       \cup {row}
    /\ lastID' = lastID + 1

\* the table after the INSERT
Store(row, changes) ==
    /\ articles' = IF changes > 0 THEN articles \cup {row} ELSE articles
    /\ lastID' = IF changes > 0 THEN lastID + 1 ELSE lastID

\* the existence check: db.get by hash or link
SaveCheck(r) ==
    /\ run[r].pc = "save"
    /\ run[r].j < Len(run[r].extracted)
    /\ LET a == CurrentArticle(r)
           found == ExistingArticles(articles, generateHash(a.title, a.link),
                                     a.link)
       IN  \/ /\ CanFail
              /\ ToInnerCatch(r, "storage")
              /\ faults' = faults + 1
           \/ /\ found = {}
              /\ run' = [run EXCEPT ![r].pc = "insert"]
              /\ UNCHANGED faults
           \/ /\ \E row \in found :
                    run' = [run EXCEPT
                        ![r].lastSave = [isNew |-> FALSE, id |-> row.id],
                        ![r].newCount = NewCountAfter(@, FALSE),
                        ![r].j = @ + 1]
              /\ UNCHANGED faults
    /\ UNCHANGED <<others, site, articles, lastID, history, logs>>

\* INSERT OR IGNORE and its callback; no existing row was found before
SaveInsert(r) ==
    /\ run[r].pc = "insert"
    /\ \/ /\ CanFail
          /\ ToInnerCatch(r, "storage")
          /\ faults' = faults + 1
          /\ UNCHANGED <<articles, lastID>>
       \/ /\ UNCHANGED faults
          /\ \E isPostgres \in BOOLEAN :
             LET row == Row(lastID + 1, run[r].sourceId, CurrentArticle(r), 0,
                            r, run[r].crawlDepth)
                 res == InsertResult(isPostgres, row)
             IN  /\ Store(row, res.changes)
                 /\ run' = [run EXCEPT
                        ![r].pc = "save",
                        ![r].lastSave = [isNew |-> res.isNew, id |-> res.id],
                        ![r].newCount = NewCountAfter(@, res.isNew),
                        ![r].mainCount = IF res.isNew THEN @ + 1 ELSE @,
                        ![r].j = @ + 1]
    /\ UNCHANGED <<others, site, history, logs>>

----------------------------------------------------------------------------
(* the end of crawlSource: close, logs, history, and the two catch blocks *)

\* await crawler.close() after the save loop: Puppeteer closes its pooled
\* pages (errors caught) and the browser; Cheerio has nothing to close
CrawlerClose(r) ==
    /\ run[r].pc = "save"
    /\ run[r].j = Len(run[r].extracted)
    /\ \/ /\ CanFail
          /\ run[r].type = "puppeteer"
          /\ run' = [run EXCEPT ![r].pc = "innerCatch", ![r].pagePool = 0,
                                ![r].closeCalls = @ + 1,
                                ![r].page = AfterClose(@, FALSE),
                                ![r].result.error = "browser close"]
          /\ faults' = faults + 1
       \/ /\ run' = [run EXCEPT ![r].pc = "logSuccess", ![r].pagePool = 0,
                                ![r].closeCalls = @ + 1,
                                ![r].page = AfterClose(@, TRUE)]
          /\ UNCHANGED faults
    /\ UNCHANGED <<others, site, articles, lastID, history, logs>>

\* await logger.logCrawlOperation(sourceId, 'crawl', 'success', ...)
LogSuccess(r) ==
    /\ run[r].pc = "logSuccess"
    /\ \/ /\ CanFail
          /\ ToInnerCatch(r, "storage")
          /\ faults' = faults + 1
          /\ UNCHANGED logs
       \/ /\ logs' = [logs EXCEPT ![r] = Append(@, "success")]
          /\ run' = [run EXCEPT ![r].pc = "logHistory"]
          /\ UNCHANGED faults
    /\ UNCHANGED <<others, site, articles, lastID, history>>

\* the row logCrawlHistory inserts into crawl_history
HistoryRow(r) ==
    [source_id |-> run[r].sourceId,
     total_found |-> Len(run[r].extracted),
     total_processed |-> Len(run[r].extracted),
     new_articles |-> run[r].newCount,
     crawl_depth |-> run[r].crawlDepth]

\* await this.logCrawlHistory(sourceId, stats); return {success: true, ...}
LogHistory(r) ==
    /\ run[r].pc = "logHistory"
    /\ \/ /\ CanFail
          /\ ToInnerCatch(r, "storage")
          /\ faults' = faults + 1
          /\ UNCHANGED history
       \/ /\ history' = [history EXCEPT ![r] = Append(@, HistoryRow(r))]
          /\ run' = [run EXCEPT
                ![r].pc = "done",
                ![r].result = [success |-> TRUE, error |-> "",
                               newArticles |-> run[r].newCount]]
          /\ UNCHANGED faults
    /\ UNCHANGED <<others, site, articles, lastID, logs>>

\* catch (crawlerError) { await crawler.close(); throw crawlerError; }
InnerCatch(r) ==
    /\ run[r].pc = "innerCatch"
    /\ \/ /\ CanFail
          /\ run[r].type = "puppeteer"
          /\ run' = [run EXCEPT ![r].pc = "outerCatch", ![r].pagePool = 0,
                                ![r].closeCalls = CatchCloses(@),
                                ![r].page = AfterClose(@, FALSE),
                                ![r].result.error = "browser close"]
          /\ faults' = faults + 1
       \/ /\ run' = [run EXCEPT ![r].pc = "outerCatch", ![r].pagePool = 0,
                                ![r].closeCalls = CatchCloses(@),
                                ![r].page = AfterClose(@, TRUE)]
          /\ UNCHANGED faults
    /\ UNCHANGED <<others, site, articles, lastID, history, logs>>

RethrowLogError(logFailed) == IF logFailed THEN "thrown" ELSE "failed"

\* the outer catch wraps its own logCrawlOperation in try/catch, so the call
\* returns {success: false, error, ...} whether or not the log was written
AfterErrorLog(logFailed) == "failed"

\* catch (error) at the run boundary
OuterCatch(r) ==
    /\ run[r].pc = "outerCatch"
    /\ \/ /\ CanFail
          /\ run' = [run EXCEPT ![r].pc = AfterErrorLog(TRUE)]
          /\ faults' = faults + 1
          /\ UNCHANGED logs
       \/ /\ logs' = [logs EXCEPT ![r] = Append(@, "error")]
          /\ run' = [run EXCEPT ![r].pc = AfterErrorLog(FALSE)]
          /\ UNCHANGED faults
    /\ UNCHANGED <<others, site, articles, lastID, history>>

----------------------------------------------------------------------------
(* the pages behind the links: what a fetch of an article page yields *)

Take(s, n) == SubSeq(s, 1, Min(n, Len(s)))

\* the anchors of an article page, in document order (one link twice);
\* every page of the site carries the first `web` of them
AnchorUrls == <<"c", "c", "g", "p3", "p4", "p5", "p6", "p7", "p8", "p9">>

Anchors == Take(AnchorUrls, web)

\* the text of the title element of a page
PageTitle(url) == IF url = "g" THEN "" ELSE "a"

\* the text of an anchor (longer than 10 characters)
LinkText(url) == "more about " \o url

\* UniversalCrawler.extractArticleContent: both navigation strategies failed
\* (ok = FALSE) or the page was read
ExtractUniversal(url, ok) ==
    IF ok
    THEN [title |-> IF PageTitle(url) = "" THEN "untitled" ELSE PageTitle(url),
          content |-> "text", internalLinks |-> Take(Anchors, 3)]
    ELSE [title |-> "extract error", content |-> "", internalLinks |-> <<>>]

----------------------------------------------------------------------------
(* UniversalCrawler.crawlInternalLinks(page, links, sourceId, selectors,
   currentDepth, maxDepth): one call, its chunk of parallel tasks *)

StopsPastMaxDepth(links, currentDepth, maxDepth) ==
    currentDepth > maxDepth \/ links = <<>>

StopsFollow(links, currentDepth, maxDepth) ==
    currentDepth >= maxDepth \/ links = <<>>

linksToProcess(links) == Take(links, 2)

chunkSize == 2

\* this.maxConcurrentPages
maxConcurrentPages == 5

\* getOrCreatePage: the idle pool after an idle page was popped, or after a
\* page was created because there was none
Popped(idle) == IF idle > 0 THEN idle - 1 ELSE idle

\* the idle pool after n calls of getOrCreatePage in a row
RECURSIVE PoppedTimes(_, _)
PoppedTimes(idle, n) ==
    IF n = 0 THEN idle ELSE PoppedTimes(Popped(idle), n - 1)

\* the tasks of linksToProcess.slice(i, i + chunkSize) as chunk.map leaves
\* them: each has run to its first await, so its getOrCreatePage() has
\* popped an idle page if there was one (the task goes on with it), else it
\* waits for a page to be created
Chunk(links, i, depth, idle) ==
    [k \in 1..(Min(i + chunkSize, Len(links)) - i) |->
        [pc |-> IF k <= idle THEN "extract" ELSE "acquire",
         value |-> FALSE,
         page |-> IF k <= idle THEN "held" ELSE "none",
         article |-> [title |-> "", link |-> links[i + k], content |-> "",
                      depth |-> depth]]]

Settled(t) == t.pc \in {"fulfilled", "rejected"}

CrawlInternalLinks(links, sourceId, currentDepth, maxDepth) ==
    /\ "follow" \in active
    /\ follow.pc = "idle"
    /\ follow' =
         IF StopsFollow(links, currentDepth, maxDepth)
         THEN [follow EXCEPT !.pc = "returned", !.sourceId = sourceId,
                             !.currentDepth = currentDepth,
                             !.maxDepth = maxDepth]
         ELSE [follow EXCEPT !.pc = "chunk", !.sourceId = sourceId,
                             !.currentDepth = currentDepth,
                             !.maxDepth = maxDepth,
                             !.links = linksToProcess(links),
                             !.tasks = Chunk(linksToProcess(links), 0,
                                             currentDepth + 1, pagePool)]
    /\ pagePool' =
         IF StopsFollow(links, currentDepth, maxDepth)
         THEN pagePool
         ELSE PoppedTimes(pagePool,
                          Min(chunkSize, Len(linksToProcess(links))))
    /\ UNCHANGED <<site, articles, lastID, history, logs, run, faults,
                   active, web, legacy, beyond>>

\* const dedicatedPage = await this.getOrCreatePage(), before the try, for
\* a task that found no idle page: browser.newPage() gives one; a failure
\* rejects the task's promise
TaskAcquire(t) ==
    /\ follow.pc = "chunk"
    /\ t \in DOMAIN follow.tasks
    /\ follow.tasks[t].pc = "acquire"
    /\ \/ /\ follow' = [follow EXCEPT !.tasks[t].pc = "extract",
                                      !.tasks[t].page = "held"]
          /\ UNCHANGED faults
       \/ /\ CanFail
          /\ follow' = [follow EXCEPT !.tasks[t].pc = "rejected"]
          /\ faults' = faults + 1
    /\ UNCHANGED <<site, articles, lastID, history, logs, run, active, web,
                   legacy, pagePool, beyond>>

\* await this.extractArticleContent(dedicatedPage, linkInfo.url, ...): one
\* fetch of the link; it never throws
TaskExtract(t) ==
    /\ follow.pc = "chunk"
    /\ t \in DOMAIN follow.tasks
    /\ follow.tasks[t].pc = "extract"
    /\ \E ok \in BOOLEAN :
         /\ ok \/ CanFail
         /\ faults' = IF ok THEN faults ELSE faults + 1
         /\ LET data == ExtractUniversal(follow.tasks[t].article.link, ok)
            IN  follow' = [follow EXCEPT
                    !.fetched = @ + 1,
                    !.tasks[t].pc = "check",
                    !.tasks[t].article.title = data.title,
                    !.tasks[t].article.content = data.content]
    /\ UNCHANGED <<site, articles, lastID, history, logs, run, active, web,
                   legacy, pagePool, beyond>>

\* saveArticle's existence check; an error is caught by the task: null
TaskCheck(t) ==
    /\ follow.pc = "chunk"
    /\ t \in DOMAIN follow.tasks
    /\ follow.tasks[t].pc = "check"
    /\ LET a == follow.tasks[t].article
           found == ExistingArticles(articles, generateHash(a.title, a.link),
                                     a.link)
       IN  \/ /\ CanFail
              /\ follow' = [follow EXCEPT !.tasks[t].pc = "release"]
              /\ faults' = faults + 1
           \/ /\ found = {}
              /\ follow' = [follow EXCEPT !.tasks[t].pc = "insert"]
              /\ UNCHANGED faults
           \/ /\ found # {}
              /\ follow' = [follow EXCEPT !.tasks[t].pc = "release"]
              /\ UNCHANGED faults
    /\ UNCHANGED <<site, articles, lastID, history, logs, run, active, web,
                   legacy, pagePool, beyond>>

\* saveArticle's INSERT OR IGNORE; the task returns the article if it is new
TaskInsert(t) ==
    /\ follow.pc = "chunk"
    /\ t \in DOMAIN follow.tasks
    /\ follow.tasks[t].pc = "insert"
    /\ \/ /\ CanFail
          /\ follow' = [follow EXCEPT !.tasks[t].pc = "release"]
          /\ faults' = faults + 1
          /\ UNCHANGED <<articles, lastID>>
       \/ /\ UNCHANGED faults
          /\ \E isPostgres \in BOOLEAN :
             LET a == follow.tasks[t].article
                 row == Row(lastID + 1, follow.sourceId, a, a.depth, "follow",
                            follow.maxDepth)
                 res == InsertResult(isPostgres, row)
             IN  /\ Store(row, res.changes)
                 /\ follow' = [follow EXCEPT !.tasks[t].pc = "release",
                                             !.tasks[t].value = res.isNew]
    /\ UNCHANGED <<site, history, logs, run, active, web, legacy, pagePool,
                   beyond>>

\* finally { await this.releasePage(dedicatedPage) }, up to its await: with
\* fewer than maxConcurrentPages idle pages the reset of the page is begun,
\* else the page is closed; a failed page.close() rejects the task's promise
TaskRelease(t) ==
    /\ follow.pc = "chunk"
    /\ t \in DOMAIN follow.tasks
    /\ follow.tasks[t].pc = "release"
    /\ \/ /\ pagePool < maxConcurrentPages
          /\ follow' = [follow EXCEPT !.tasks[t].pc = "reset"]
          /\ UNCHANGED faults
       \/ /\ pagePool >= maxConcurrentPages
          /\ follow' = [follow EXCEPT !.tasks[t].pc = "fulfilled",
                                      !.tasks[t].page = "closed"]
          /\ UNCHANGED faults
       \/ /\ pagePool >= maxConcurrentPages
          /\ CanFail
          /\ follow' = [follow EXCEPT !.tasks[t].pc = "rejected",
                                      !.tasks[t].page = "left"]
          /\ faults' = faults + 1
    /\ UNCHANGED <<site, articles, lastID, history, logs, run, active, web,
                   legacy, pagePool, beyond>>

\* await page.goto('about:blank') has settled: the page is pushed to the
\* idle pool; after a failed reset it is closed, and a failed page.close()
\* rejects the task's promise
TaskReset(t) ==
    /\ follow.pc = "chunk"
    /\ t \in DOMAIN follow.tasks
    /\ follow.tasks[t].pc = "reset"
    /\ \/ /\ follow' = [follow EXCEPT !.tasks[t].pc = "fulfilled",
                                      !.tasks[t].page = "pooled"]
          /\ pagePool' = pagePool + 1
          /\ UNCHANGED faults
       \/ /\ CanFail
          /\ follow' = [follow EXCEPT !.tasks[t].pc = "fulfilled",
                                      !.tasks[t].page = "closed"]
          /\ faults' = faults + 1
          /\ UNCHANGED pagePool
       \/ /\ faults + 1 < MaxFaults
          /\ follow' = [follow EXCEPT !.tasks[t].pc = "rejected",
                                      !.tasks[t].page = "left"]
          /\ faults' = faults + 2
          /\ UNCHANGED pagePool
    /\ UNCHANGED <<site, articles, lastID, history, logs, run, active, web,
                   legacy, beyond>>

\* the articles of the fulfilled tasks that returned one, in task order
RECURSIVE Fulfilled(_)
AllOrNothing(tasks) ==
    IF \E k \in DOMAIN tasks : tasks[k].pc = "rejected" THEN <<>>
    ELSE LET ok == SelectSeq(tasks,
                             LAMBDA t : t.pc = "fulfilled" /\ t.value)
         IN  [k \in 1..Len(ok) |-> ok[k].article]

Fulfilled(tasks) ==
    IF tasks = <<>> THEN <<>>
    ELSE (IF Head(tasks).pc = "fulfilled" /\ Head(tasks).value
          THEN <<Head(tasks).article>> ELSE <<>>) \o Fulfilled(Tail(tasks))

\* await Promise.allSettled(chunkPromises), results.push(...), i += chunkSize
ChunkSettled ==
    /\ follow.pc = "chunk"
    /\ \A t \in DOMAIN follow.tasks : Settled(follow.tasks[t])
    /\ LET i == follow.i + chunkSize
       IN  follow' = [follow EXCEPT
               !.results = @ \o Fulfilled(follow.tasks),
               !.i = i,
               !.tasks = IF i < Len(follow.links)
                         THEN Chunk(follow.links, i, follow.currentDepth + 1,
                                    pagePool)
                         ELSE <<>>,
               !.pc = IF i < Len(follow.links) THEN "chunk" ELSE "returned"]
       /\ pagePool' =
            IF i < Len(follow.links)
            THEN PoppedTimes(pagePool, Min(chunkSize, Len(follow.links) - i))
            ELSE pagePool
    /\ UNCHANGED <<site, articles, lastID, history, logs, run, faults,
                   active, web, legacy, beyond>>

\* the tasks of a chunk run in parallel
FollowStep ==
    \/ \E t \in 1..chunkSize :
         \/ TaskAcquire(t)
         \/ TaskExtract(t)
         \/ TaskCheck(t)
         \/ TaskInsert(t)
         \/ TaskRelease(t)
         \/ TaskReset(t)
    \/ ChunkSettled

----------------------------------------------------------------------------
(* UniversalCrawler.testSelector(url, selector, type, options), on the
   crawler object whose pool crawlInternalLinks uses *)

TestFrame ==
    UNCHANGED <<site, articles, lastID, history, logs, run, active, web,
                follow, legacy, cronVars, hashes, extracts, master, sessions,
                late>>

\* the call up to the await of `await this.getOrCreatePage()`: options,
\* url and selector are checked inside the try (a failed check is caught
\* and returned); getOrCreatePage pops an idle page if there is one, else
\* it goes on to create a page
TestSelector(t, valid) ==
    /\ t \in active
    /\ tests[t].pc = "idle"
    /\ IF ~valid
       THEN /\ tests' = [tests EXCEPT ![t].pc = "returned"]
            /\ UNCHANGED pagePool
       ELSE IF pagePool > 0
       THEN /\ tests' = [tests EXCEPT ![t].pc = "use", ![t].page = TRUE,
                                      ![t].taken = Popped(pagePool) - pagePool]
            /\ pagePool' = Popped(pagePool)
       ELSE /\ tests' = [tests EXCEPT ![t].pc = "acquire"]
            /\ UNCHANGED pagePool
    /\ UNCHANGED faults
    /\ TestFrame

\* page = await this.getOrCreatePage() when there was no idle page: a page
\* is created; a failed creation is caught, and `finally` finds page = null
TestAcquire(t) ==
    /\ tests[t].pc = "acquire"
    /\ \/ /\ tests' = [tests EXCEPT ![t].pc = "use", ![t].page = TRUE]
          /\ UNCHANGED faults
       \/ /\ CanFail
          /\ tests' = [tests EXCEPT ![t].pc = "returned"]
          /\ faults' = faults + 1
    /\ UNCHANGED pagePool
    /\ TestFrame

\* navigation (two strategies), the waits and the evaluations on the page
TestUse(t) ==
    /\ tests[t].pc = "use"
    /\ \/ /\ tests' = [tests EXCEPT ![t].pc = "close"]
          /\ UNCHANGED faults
       \/ /\ tests' = [tests EXCEPT ![t].pc = "finally"]
          /\ UNCHANGED faults
       \/ /\ CanFail
          /\ tests' = [tests EXCEPT ![t].pc = "finally"]
          /\ faults' = faults + 1
    /\ UNCHANGED pagePool
    /\ TestFrame

\* await page.close() before the success result is returned
TestClose(t) ==
    /\ tests[t].pc = "close"
    /\ \/ /\ tests' = [tests EXCEPT ![t].pc = "finally", ![t].page = FALSE]
          /\ UNCHANGED faults
       \/ /\ CanFail
          /\ tests' = [tests EXCEPT ![t].pc = "finally"]
          /\ faults' = faults + 1
    /\ UNCHANGED pagePool
    /\ TestFrame

\* finally: a page that is not closed yet is closed (an error of close is
\* caught and logged); the page is never handed back to the pool
TestFinally(t) ==
    /\ tests[t].pc = "finally"
    /\ \/ /\ tests' = [tests EXCEPT ![t].pc = "returned", ![t].page = FALSE]
          /\ UNCHANGED faults
       \/ /\ CanFail
          /\ tests[t].page
          /\ tests' = [tests EXCEPT ![t].pc = "returned", ![t].page = FALSE]
          /\ faults' = faults + 1
    /\ UNCHANGED pagePool
    /\ TestFrame

TestStep(t) ==
    \/ TestAcquire(t)
    \/ TestUse(t)
    \/ TestClose(t)
    \/ TestFinally(t)

\* the pages that calls hold open: taken from the pool or created, and not
\* yet released or closed
InUse ==
    Cardinality({t \in TestIds : tests[t].page})
    + Cardinality({k \in DOMAIN follow.tasks :
                     follow.tasks[k].pc \in {"extract", "check", "insert",
                                             "release", "reset"}})

----------------------------------------------------------------------------
(* index.js: GET /api/farsnews, with its own extractArticleContent,
   crawlInternalLinks and saveArticle *)

Range(s) == {s[k] : k \in DOMAIN s}

\* the anchors kept by the page script: no duplicate, not the page itself
RECURSIVE DistinctOthers(_, _, _)
DistinctOthers(anchors, url, acc) ==
    IF anchors = <<>> THEN acc
    ELSE DistinctOthers(Tail(anchors), url,
                        IF Head(anchors) = url \/ Head(anchors) \in Range(acc)
                        THEN acc ELSE Append(acc, Head(anchors)))

\* extractArticleContent(page, url): the navigation failed (ok = FALSE) or
\* the page was read
extractArticleContent(url, ok) ==
    IF ok
    THEN [content |-> "text",
          internalLinks |-> Take(DistinctOthers(Anchors, url, <<>>), 5)]
    ELSE [content |-> "extract error", internalLinks |-> <<>>]

\* the links the showcase page lists, with their texts
Showcase ==
    << [title |-> "showcase one", link |-> "s1"],
       [title |-> "showcase two", link |-> "c"] >>

\* ?depth= of the request, within the range of CrawlOptions.crawlDepth
LegacyDepths == {0, 1, 2}

NoFetches == [d \in 1..3 |-> 0]

StopsLegacy(links, maxDepth, currentDepth) ==
    currentDepth >= maxDepth \/ links = <<>>

EveryLegacyLink(links) == links

LegacyLinksToFollow(links) == Take(links, 3)

\* a call of crawlInternalLinks(page, links, maxDepth, currentDepth): nothing,
\* or a loop over the first links
Frames(links, maxDepth, currentDepth) ==
    IF StopsLegacy(links, maxDepth, currentDepth) THEN <<>>
    ELSE << [links |-> LegacyLinksToFollow(links), idx |-> 1,
             depth |-> currentDepth] >>

\* the loops that have no link left return to their callers
RECURSIVE Returned(_)
Returned(stack) ==
    IF stack = <<>> THEN <<>>
    ELSE LET top == stack[Len(stack)]
         IN  IF top.idx > Len(top.links)
             THEN Returned(SubSeq(stack, 1, Len(stack) - 1))
             ELSE stack

\* the next iteration of the route's loop over the listed articles
NextArticle(l) ==
    [l EXCEPT !.i = @ + 1,
              !.pc = IF l.i + 1 < Min(Len(l.list), l.limit)
                     THEN "article" ELSE "history"]

\* the next crawled article to save, or the end of the listed article
NextCrawled(l) ==
    IF l.k + 1 < Len(l.crawled)
    THEN [l EXCEPT !.k = @ + 1, !.cur = l.crawled[l.k + 2], !.pc = "check"]
    ELSE NextArticle(l)

\* after `await saveArticle(...)`: resolved ("saved", "exists") or rejected
AfterSave(l, outcome) ==
    LET counted == [l EXCEPT !.newCount = IF outcome = "saved" THEN @ + 1
                                          ELSE @]
    IN  IF l.phase = "seed"
        THEN IF outcome = "error"
             THEN NextArticle([l EXCEPT !.processed = @ + 1])
             ELSE LET pushed == [counted EXCEPT !.processed = @ + 1]
                      stack == Frames(l.links, l.crawlDepth, 0)
                  IN  IF l.crawlDepth > 0 /\ l.links # <<>> /\ stack # <<>>
                      THEN [pushed EXCEPT !.pc = "crawl", !.stack = stack,
                                          !.crawled = <<>>,
                                          !.fetched = NoFetches]
                      ELSE NextArticle(pushed)
        ELSE IF outcome = "error"
             THEN NextCrawled(l)
             ELSE NextCrawled([counted EXCEPT !.internal = @ + 1])

LegacyFrame ==
    UNCHANGED <<site, history, logs, run, active, web, follow, pagePool,
                beyond>>

FarsnewsRequest(full, limit, depth) ==
    /\ "legacy" \in active
    /\ legacy.pc = "idle"
    /\ legacy' = [legacy EXCEPT !.pc = "launch", !.full = full,
                                !.limit = limit, !.crawlDepth = depth]
    /\ UNCHANGED <<articles, lastID, faults>>
    /\ LegacyFrame

\* puppeteer.launch ... page.evaluate of the showcase page; a failure is the
\* route's catch: status 500
FarsnewsList ==
    /\ legacy.pc = "launch"
    /\ \/ /\ legacy' = NextArticle([legacy EXCEPT !.list = Showcase,
                                                  !.i = -1])
          /\ UNCHANGED faults
       \/ /\ CanFail
          /\ legacy' = [legacy EXCEPT !.pc = "error500"]
          /\ faults' = faults + 1
    /\ UNCHANGED <<articles, lastID>>
    /\ LegacyFrame

\* one listed article up to its saveArticle call
FarsnewsArticle ==
    /\ legacy.pc = "article"
    /\ LET item == legacy.list[legacy.i + 1]
       IN  \E ok \in BOOLEAN :
             /\ ok \/ (CanFail /\ legacy.full)
             /\ faults' = IF ok THEN faults ELSE faults + 1
             /\ LET result == extractArticleContent(item.link, ok)
                IN  legacy' = [legacy EXCEPT
                       !.pc = "check", !.phase = "seed",
                       !.cur = [title |-> item.title, link |-> item.link,
                                content |-> IF legacy.full
                                            THEN result.content ELSE "",
                                depth |-> 0],
                       !.links = IF legacy.full THEN result.internalLinks
                                 ELSE <<>>]
    /\ UNCHANGED <<articles, lastID>>
    /\ LegacyFrame

\* saveArticle(article): SELECT id FROM articles WHERE hash = ?
LegacySaveCheck ==
    /\ legacy.pc = "check"
    /\ LET hash == generateHash(legacy.cur.title, legacy.cur.link)
       IN  \/ /\ CanFail
              /\ legacy' = AfterSave(legacy, "error")
              /\ faults' = faults + 1
           \/ /\ \E a \in articles : a.hash = hash
              /\ legacy' = AfterSave(legacy, "exists")
              /\ UNCHANGED faults
           \/ /\ \A a \in articles : a.hash # hash
              /\ legacy' = [legacy EXCEPT !.pc = "insert"]
              /\ UNCHANGED faults
    /\ UNCHANGED <<articles, lastID>>
    /\ LegacyFrame

\* saveArticle(article): the plain INSERT; a conflict is an error
LegacySaveInsert ==
    /\ legacy.pc = "insert"
    /\ LET row == Row(lastID + 1, NoId, legacy.cur, legacy.cur.depth,
                      "legacy", legacy.crawlDepth)
       IN  \/ /\ CanFail
              /\ legacy' = AfterSave(legacy, "error")
              /\ faults' = faults + 1
              /\ UNCHANGED <<articles, lastID>>
           \/ /\ UniqueViolation(articles, row)
              /\ legacy' = AfterSave(legacy, "error")
              /\ UNCHANGED <<articles, lastID, faults>>
           \/ /\ ~UniqueViolation(articles, row)
              /\ Store(row, 1)
              /\ legacy' = AfterSave(legacy, "saved")
              /\ UNCHANGED faults
    /\ LegacyFrame

\* can the loop of crawlInternalLinks go one level deeper
GoesDeeper(links, maxDepth, currentDepth) ==
    links # <<>> /\ currentDepth + 1 < maxDepth

\* one iteration of the loop of crawlInternalLinks: the link is fetched, its
\* article collected, and the recursive call started
LegacyFollow ==
    /\ legacy.pc = "crawl"
    /\ LET n == Len(legacy.stack)
           top == legacy.stack[n]
           url == top.links[top.idx]
       IN  \E ok \in BOOLEAN :
             /\ ok \/ CanFail
             /\ faults' = IF ok THEN faults ELSE faults + 1
             /\ LET result == extractArticleContent(url, ok)
                    article == [title |-> LinkText(url), link |-> url,
                                content |-> result.content,
                                depth |-> top.depth + 1]
                    deeper ==
                        IF GoesDeeper(result.internalLinks, legacy.crawlDepth,
                                      top.depth)
                        THEN Frames(result.internalLinks, legacy.crawlDepth,
                                    top.depth + 1)
                        ELSE <<>>
                    stack == Returned([legacy.stack EXCEPT ![n].idx = @ + 1]
                                      \o deeper)
                    crawled == Append(legacy.crawled, article)
                    fetched == [legacy.fetched EXCEPT
                                   ![Min(top.depth + 1, 3)] = @ + 1]
                IN  legacy' =
                      IF stack # <<>>
                      THEN [legacy EXCEPT !.stack = stack,
                                          !.crawled = crawled,
                                          !.fetched = fetched]
                      ELSE [legacy EXCEPT !.stack = stack,
                                          !.crawled = crawled,
                                          !.fetched = fetched,
                                          !.phase = "crawled", !.k = 0,
                                          !.cur = crawled[1], !.pc = "check"]
    /\ UNCHANGED <<articles, lastID>>
    /\ LegacyFrame

\* the crawl_history row (its statement runs without a callback), then
\* await browser.close() and the response
FarsnewsHistory ==
    /\ legacy.pc = "history"
    /\ LET row == [articles_found |-> legacy.processed + legacy.internal,
                   new_articles |-> legacy.newCount]
       IN  \/ /\ legacy' = [legacy EXCEPT !.pc = "responded",
                                          !.historyRows = Append(@, row)]
              /\ UNCHANGED faults
           \/ /\ CanFail
              /\ legacy' = [legacy EXCEPT !.pc = "error500",
                                          !.historyRows = Append(@, row)]
              /\ faults' = faults + 1
    /\ UNCHANGED <<articles, lastID>>
    /\ LegacyFrame

LegacyStep ==
    \/ FarsnewsList
    \/ FarsnewsArticle
    \/ LegacySaveCheck
    \/ LegacySaveInsert
    \/ LegacyFollow
    \/ FarsnewsHistory

----------------------------------------------------------------------------
(* Options the callers pass *)

\* scheduler fires and API requests: in range
ValidOptions ==
    { [limit |-> 1], [limit |-> 100, crawlDepth |-> 5],
      [crawlDepth |-> 0, fullContent |-> FALSE, timeout |-> 30000] }

InvalidOptions ==
    { [limit |-> 0, crawlDepth |-> 6, timeout |-> 100],
      [limit |-> 101, waitTime |-> 999] }

Step(r) ==
    \/ GetSource(r)
    \/ LogStart(r)
    \/ CrawlOpen(r)
    \/ CrawlItem(r)
    \/ ReleasePage(r)
    \/ SaveCheck(r)
    \/ SaveInsert(r)
    \/ CrawlerClose(r)
    \/ LogSuccess(r)
    \/ LogHistory(r)
    \/ InnerCatch(r)
    \/ OuterCatch(r)

Next ==
    \/ \E r \in Runs, s \in SourceIds, o \in ValidOptions \cup InvalidOptions :
            CrawlSource(r, s, o)
    \/ \E r \in Runs : Step(r)

Spec == Init /\ [][Next]_vars

----------------------------------------------------------------------------
(* Option validation on the boundary values of every bound *)

OptionFields ==
    {"limit", "crawlDepth", "waitTime", "timeout", "navigationTimeout"}

\* a property is absent ({}) or carries one of the values around its bounds
Picks(f) ==
    {{}} \cup
    { {v} : v \in
        CASE f = "limit" -> {0, 1, 100, 101}
          [] f = "crawlDepth" -> {-1, 0, 5, 6}
          [] f = "waitTime" -> {999, 1000, 30000, 30001}
          [] f = "timeout" -> {100, 29999, 30000, 900000, 900001}
          [] OTHER -> {29999} }

MkOptions(pick) ==
    [f \in {g \in OptionFields : pick[g] # {}} |-> CHOOSE v \in pick[f] : TRUE]

AllOptions ==
    { MkOptions([f \in OptionFields |->
            CASE f = "limit" -> l
              [] f = "crawlDepth" -> d
              [] f = "waitTime" -> w
              [] f = "timeout" -> t
              [] OTHER -> n]) :
        l \in Picks("limit"), d \in Picks("crawlDepth"),
        w \in Picks("waitTime"), t \in Picks("timeout"),
        n \in Picks("navigationTimeout") }

\* one caller, one source list
InitValidate ==
    /\ Start
    /\ schedules = [id \in ScheduleIds |-> NoRow]
    /\ site = [s \in {1, 2} |-> IF s = 1 THEN SiteSame ELSE <<>>]
    /\ active = {"r1"}
    /\ web = 0

NextValidate ==
    \/ \E r \in Runs, s \in SourceIds, o \in AllOptions : CrawlSource(r, s, o)
    \/ \E r \in Runs : Step(r)

SpecValidate == InitValidate /\ [][NextValidate]_vars

----------------------------------------------------------------------------
(* Link follow-up: a crawlSource call next to a call of crawlInternalLinks,
   or a request of the legacy route *)

\* how many anchors the pages of the site carry
FanOuts == {0, 1, 10}

\* currentDepth and maxDepth of a crawlInternalLinks call
Depths == {0, 1, 2}

FollowOptions ==
    {[limit |-> 100, crawlDepth |-> 2], [limit |-> 1], [limit |-> 0]}

InitFollow ==
    /\ Start
    /\ schedules = [id \in ScheduleIds |-> NoRow]
    /\ site = [s \in {1, 2} |-> IF s = 1 THEN SiteSame ELSE <<>>]
    /\ active \in {{"r1", "follow"}, {"legacy"}, {"t1", "t2"}}
    /\ web \in FanOuts

NextFollow ==
    \/ \E r \in Runs, o \in FollowOptions : CrawlSource(r, 1, o)
    \/ \E r \in Runs : Step(r)
    \/ \E currentDepth \in Depths, maxDepth \in Depths :
         CrawlInternalLinks(ExtractUniversal("c", TRUE).internalLinks, 1,
                            currentDepth, maxDepth)
    \/ FollowStep
    \/ \E full \in BOOLEAN, limit \in {1, 2}, depth \in LegacyDepths :
         FarsnewsRequest(full, limit, depth)
    \/ LegacyStep
    \/ \E t \in TestIds, valid \in BOOLEAN : TestSelector(t, valid)
    \/ \E t \in TestIds : TestStep(t)

SpecFollow == InitFollow /\ [][NextFollow]_vars

\* every operation a follow-up task awaits settles: navigation and waits
\* have timeouts, the database answers its callbacks, and the browser
\* answers newPage, goto('about:blank') and close
SpecFollowFair ==
    /\ InitFollow
    /\ [][NextFollow]_vars
    /\ WF_vars(FollowStep)

----------------------------------------------------------------------------
(* The page pool of one UniversalCrawler: selector tests next to a call of
   crawlInternalLinks, or six selector tests at once *)

InitPool ==
    /\ Start
    /\ schedules = [id \in ScheduleIds |-> NoRow]
    /\ site = [s \in {1, 2} |-> IF s = 1 THEN SiteSame ELSE <<>>]
    /\ active \in {{"follow", "t1"}, TestIds}
    /\ web = 10

NextPool ==
    \/ CrawlInternalLinks(ExtractUniversal("c", TRUE).internalLinks, 1, 0, 1)
    \/ FollowStep
    \/ \E t \in TestIds, valid \in BOOLEAN : TestSelector(t, valid)
    \/ \E t \in TestIds : TestStep(t)

SpecPool == InitPool /\ [][NextPool]_vars

----------------------------------------------------------------------------
(* services/scheduler.js and the schedule routes *)

SchedFrame ==
    UNCHANGED <<site, articles, lastID, history, logs, run, active, web,
                follow, legacy, pagePool, tests, hashes, extracts, master,
                sessions, late>>

\* getScheduleById(id): the rows the query yields, one or none
getScheduleById(id) ==
    IF schedules[id].exists THEN {schedules[id]} ELSE {}

\* the crawlOptions object of a cron fire and of runJob
crawlOptions(row) ==
    [limit |-> IF row.article_limit # 0 THEN row.article_limit ELSE 10,
     crawlDepth |-> row.crawl_depth,
     fullContent |-> row.full_content,
     timeout |-> IF row.timeout_ms # 0 THEN row.timeout_ms ELSE 300000,
     followLinks |-> row.follow_links # FALSE]

startJobKeepsPrevious(s, schedule) ==
    [s EXCEPT !.tasks = Append(s.tasks,
                               [id |-> schedule.id, live |-> TRUE,
                                schedule |-> schedule]),
              !.jobs[schedule.id] = Len(s.tasks) + 1]

\* startJob(schedule): the previous job of the id is stopped, a task is
\* created by cron.schedule with the schedule in its closure, started, and
\* registered
startJob(s, schedule) ==
    LET old == s.jobs[schedule.id]
        stopped == IF old # NoJob THEN [s.tasks EXCEPT ![old].live = FALSE]
                   ELSE s.tasks
    IN  [s EXCEPT !.tasks = Append(stopped,
                                   [id |-> schedule.id, live |-> TRUE,
                                    schedule |-> schedule]),
                  !.jobs[schedule.id] = Len(stopped) + 1]

stopJobForgets(s, id) == [s EXCEPT !.jobs[id] = NoJob]

\* stopJob(scheduleId)
stopJob(s, id) ==
    IF s.jobs[id] # NoJob
    THEN [s EXCEPT !.tasks[s.jobs[id]].live = FALSE, !.jobs[id] = NoJob]
    ELSE s

\* the schedule object the routes hand to startJob
Schedule(id) == [id |-> id, row |-> schedules[id]]

RECURSIVE StartActive(_, _)
StartActive(s, ids) ==
    IF ids = {} THEN s
    ELSE LET id == CHOOSE x \in ids : TRUE
         IN  StartActive(IF schedules[id].exists /\ schedules[id].is_active
                         THEN startJob(s, Schedule(id)) ELSE s,
                         ids \ {id})

\* scheduler.loadSchedules() at startup: a job for every active row; a
\* failed query yields no rows
LoadSchedules ==
    /\ ~scheduler.loaded
    /\ \/ /\ scheduler' = [StartActive(scheduler, ScheduleIds)
                             EXCEPT !.loaded = TRUE]
          /\ UNCHANGED faults
       \/ /\ CanFail
          /\ scheduler' = [scheduler EXCEPT !.loaded = TRUE]
          /\ faults' = faults + 1
    /\ UNCHANGED <<schedules, calls, puts>>
    /\ SchedFrame

\* the fires of job j that have not ended
InFlight(j) ==
    {q \in Runs : /\ calls[q].kind = "cron" /\ calls[q].job = j
                  /\ calls[q].pc \notin {"none", "end"}}

FiresOneAtATime(inflight) == inflight = {}

\* may the timer of a job fire while earlier fires of the job are in
\* flight: the job is made by cron.schedule(expr, async () => {...},
\* {scheduled: false}); the callback keeps no flag of a running crawl, it
\* gives its promise back at its first await and nothing holds on to it
MayFire(inflight) == TRUE

\* a live task fires: its callback starts with the id of its closure
CronFire(r) ==
    /\ r \in active
    /\ calls[r].pc = "none"
    /\ \E j \in DOMAIN scheduler.tasks :
         /\ scheduler.tasks[j].live
         /\ MayFire(InFlight(j))
         /\ calls' = [calls EXCEPT
                ![r] = [NoCall EXCEPT !.pc = "read", !.kind = "cron",
                                      !.id = scheduler.tasks[j].id,
                                      !.job = j]]
    /\ UNCHANGED <<schedules, scheduler, puts, faults>>
    /\ SchedFrame

\* runJob(scheduleId) is called
RunJob(r, id) ==
    /\ r \in active
    /\ calls[r].pc = "none"
    /\ calls' = [calls EXCEPT
           ![r] = [NoCall EXCEPT !.pc = "read", !.kind = "manual",
                                 !.id = id]]
    /\ UNCHANGED <<schedules, scheduler, puts, faults>>
    /\ SchedFrame

ClosureSchedule(captured, stored) == captured

\* the row the options are built from: the one just read
FreshSchedule(captured, stored) == stored

\* await this.getScheduleById(id) and the options built from its row; no
\* row, or a failed query, ends the call
FireRead(r) ==
    /\ calls[r].pc = "read"
    /\ \/ /\ getScheduleById(calls[r].id) = {}
          /\ calls' = [calls EXCEPT ![r].pc = "end"]
          /\ UNCHANGED faults
       \/ /\ CanFail
          /\ calls' = [calls EXCEPT ![r].pc = "end"]
          /\ faults' = faults + 1
       \/ /\ \E stored \in getScheduleById(calls[r].id) :
               LET captured ==
                       IF calls[r].job # NoJob
                       THEN scheduler.tasks[calls[r].job].schedule.row
                       ELSE stored
                   row == FreshSchedule(captured, stored)
               IN  calls' = [calls EXCEPT ![r].pc = "crawl",
                                          ![r].source = row.source_id,
                                          ![r].opts = crawlOptions(row)]
          /\ UNCHANGED faults
    /\ UNCHANGED <<schedules, scheduler, puts>>
    /\ SchedFrame

\* this.crawler.crawlSource(source_id, crawlOptions), up to its first await
\* (runJob returns here: the crawl runs on in an async function that is
\* not awaited)
FireCrawl(r) ==
    /\ calls[r].pc = "crawl"
    /\ CrawlSource(r, calls[r].source, calls[r].opts)

LastRunOnSuccess(result) == result.success

\* is updateLastRun called once crawlSource has resolved with result
LastRunDue(result) == TRUE

\* crawlSource has settled: await this.updateLastRun(id); an exception of
\* either is caught and logged
FireLastRun(r) ==
    /\ calls[r].pc = "crawl"
    /\ run[r].pc \in {"done", "failed", "rejected", "thrown"}
    /\ LET id == calls[r].id
       IN  \/ /\ run[r].pc # "thrown"
              /\ LastRunDue(run[r].result)
              /\ schedules' =
                   [schedules EXCEPT ![id].last_run =
                       IF schedules[id].exists THEN @ + 1 ELSE @]
              /\ calls' = [calls EXCEPT ![r].pc = "end", ![r].wrote = TRUE]
              /\ UNCHANGED faults
           \/ /\ run[r].pc # "thrown"
              /\ LastRunDue(run[r].result)
              /\ CanFail
              /\ calls' = [calls EXCEPT ![r].pc = "end"]
              /\ faults' = faults + 1
              /\ UNCHANGED schedules
           \/ /\ run[r].pc = "thrown" \/ ~LastRunDue(run[r].result)
              /\ calls' = [calls EXCEPT ![r].pc = "end"]
              /\ UNCHANGED <<schedules, faults>>
    /\ UNCHANGED <<scheduler, puts>>
    /\ SchedFrame

AwaitsCrawl(crawl) == crawl.pc \in {"done", "failed", "rejected", "thrown"}

\* what runJob's last statement needs of the crawl before runJob returns:
\* the async function has been called, and is not awaited
Launched(crawl) == crawl.pc # "idle"

\* the promise of runJob(scheduleId) resolves: after the early return for
\* a missing schedule, or after the call of the async function
RunJobReturn(r) ==
    /\ calls[r].kind = "manual"
    /\ ~calls[r].returned
    /\ \/ calls[r].pc = "end" /\ calls[r].source = 0
       \/ calls[r].pc \in {"crawl", "end"} /\ calls[r].source # 0
          /\ Launched(run[r])
    /\ calls' = [calls EXCEPT ![r].returned = TRUE]
    /\ UNCHANGED <<schedules, scheduler, puts, faults>>
    /\ SchedFrame

\* PUT /schedules/:id up to `await scheduler.updateSchedule(...)`: an invalid
\* cron expression is answered with 400; the UPDATE rewrites the columns of
\* the row, if there is one
PutSchedule(u, id, sourceId, cron, isActive, limit) ==
    /\ u \in active
    /\ puts[u].pc = "idle"
    /\ \/ /\ cron = ""
          /\ puts' = [puts EXCEPT ![u].pc = "done", ![u].route = "put",
                                  ![u].id = id]
          /\ UNCHANGED <<schedules, faults>>
       \/ /\ cron # ""
          /\ puts' = [puts EXCEPT ![u].pc = "updated", ![u].route = "put",
                                  ![u].id = id, ![u].is_active = isActive]
          /\ schedules' =
               IF schedules[id].exists
               THEN [schedules EXCEPT
                       ![id] = [ScheduleRow(sourceId, cron, isActive, limit)
                                  EXCEPT !.last_run = schedules[id].last_run]]
               ELSE schedules
          /\ UNCHANGED faults
       \/ /\ cron # ""
          /\ CanFail
          /\ puts' = [puts EXCEPT ![u].pc = "done", ![u].route = "put",
                                  ![u].id = id]
          /\ faults' = faults + 1
          /\ UNCHANGED schedules
    /\ UNCHANGED <<scheduler, calls>>
    /\ SchedFrame

\* is_active false: scheduler.stopJob(req.params.id), and the response
PutStop(u) ==
    /\ puts[u].pc = "updated"
    /\ ~puts[u].is_active
    /\ scheduler' = stopJob(scheduler, puts[u].id)
    /\ puts' = [puts EXCEPT ![u].pc = "done"]
    /\ UNCHANGED <<schedules, calls, faults>>
    /\ SchedFrame

\* is_active true: await scheduler.getScheduleById(req.params.id)
PutRead(u) ==
    /\ puts[u].pc = "updated"
    /\ puts[u].is_active
    /\ \/ /\ puts' = [puts EXCEPT
                 ![u].pc = "start",
                 ![u].schedule = IF schedules[puts[u].id].exists
                                 THEN {Schedule(puts[u].id)} ELSE {}]
          /\ UNCHANGED faults
       \/ /\ CanFail
          /\ puts' = [puts EXCEPT ![u].pc = "done"]
          /\ faults' = faults + 1
    /\ UNCHANGED <<schedules, scheduler, calls>>
    /\ SchedFrame

\* scheduler.startJob(schedule) with the row read, and the response;
\* startJob(undefined) throws before it changes anything
PutStartJob(u) ==
    /\ puts[u].pc = "start"
    /\ scheduler' = IF puts[u].schedule = {} THEN scheduler
                    ELSE startJob(scheduler,
                                  CHOOSE s \in puts[u].schedule : TRUE)
    /\ puts' = [puts EXCEPT ![u].pc = "done"]
    /\ UNCHANGED <<schedules, calls, faults>>
    /\ SchedFrame

\* DELETE /schedules/:id up to `await scheduler.deleteSchedule(...)`:
\* stopJob first, then the DELETE
DeleteSchedule(u, id) ==
    /\ u \in active
    /\ puts[u].pc = "idle"
    /\ scheduler' = stopJob(scheduler, id)
    /\ puts' = [puts EXCEPT ![u].pc = "deleting", ![u].route = "delete",
                            ![u].id = id]
    /\ UNCHANGED <<schedules, calls, faults>>
    /\ SchedFrame

\* the DELETE statement runs, and the response
DeleteRow(u) ==
    /\ puts[u].pc = "deleting"
    /\ \/ /\ schedules' = [schedules EXCEPT ![puts[u].id] = NoRow]
          /\ UNCHANGED faults
       \/ /\ CanFail
          /\ faults' = faults + 1
          /\ UNCHANGED schedules
    /\ puts' = [puts EXCEPT ![u].pc = "done"]
    /\ UNCHANGED <<scheduler, calls>>
    /\ SchedFrame

\* the tasks of cron.schedule that are started and not stopped, per id
LiveJobs(id) ==
    {j \in DOMAIN scheduler.tasks :
        scheduler.tasks[j].id = id /\ scheduler.tasks[j].live}

\* cron expressions of the requests ("" stands for an invalid one)
Crons == {"", "0 * * * *"}

InitSched ==
    /\ Start
    /\ site = [s \in {1, 2} |-> IF s = 1 THEN SiteSame ELSE <<>>]
    /\ active \in {{"r1", "r2"}, {"r1", "u1"}, {"u1", "u2"}}
    /\ web = 0
    /\ \E sourceId \in {1, 4} :
         schedules = [id \in ScheduleIds |->
                        IF id = 1
                        THEN ScheduleRow(sourceId, "*/10 * * * *", TRUE, 1)
                        ELSE NoRow]

NextSched ==
    \/ LoadSchedules
    \/ \E r \in Runs : CronFire(r)
    \/ \E r \in Runs, id \in ScheduleIds : RunJob(r, id)
    \/ \E r \in Runs : FireRead(r)
    \/ \E r \in Runs : FireCrawl(r)
    \/ \E r \in Runs : Step(r)
    \/ \E r \in Runs : FireLastRun(r)
    \/ \E r \in Runs : RunJobReturn(r)
    \/ \E u \in PutIds, id \in ScheduleIds, cron \in Crons,
          isActive \in BOOLEAN, limit \in {1, 101} :
         PutSchedule(u, id, 2, cron, isActive, limit)
    \/ \E u \in PutIds : PutStop(u)
    \/ \E u \in PutIds : PutRead(u)
    \/ \E u \in PutIds : PutStartJob(u)
    \/ \E u \in PutIds, id \in ScheduleIds : DeleteSchedule(u, id)
    \/ \E u \in PutIds : DeleteRow(u)

SpecSched == InitSched /\ [][NextSched]_vars

----------------------------------------------------------------------------
(* generateHash(title, link), on small sets of titles and links *)

\* what the hashing and extraction steps leave alone
PureFrame ==
    UNCHANGED <<site, articles, lastID, history, logs, run, faults, active,
                web, follow, legacy, pagePool, tests, cronVars, master,
                sessions, late>>

\* titles and links of extracted articles
Titles == {"a", "ab", "b"}

Links == {"c", "bc", "d"}

\* hash: this.generateHash(article.title, link), as crawl() builds an article
Fingerprint(title, link) ==
    /\ hashes' = hashes \cup {[title |-> title, link |-> link,
                               hash |-> generateHash(title, link)]}
    /\ UNCHANGED extracts
    /\ PureFrame

\* no source, no request, no schedule
Quiet ==
    /\ Start
    /\ site = [s \in {1, 2} |-> <<>>]
    /\ active = {}
    /\ web = 0
    /\ schedules = [id \in ScheduleIds |-> NoRow]

NextHash == \E title \in Titles, link \in Links : Fingerprint(title, link)

SpecHash == Quiet /\ [][NextHash]_vars

----------------------------------------------------------------------------
(* Field extraction by CheerioCrawler.crawl, PuppeteerCrawler.crawl and
   UniversalCrawler.extractArticleContent, on one page *)

\* the most elements a page holds
MaxElements == 2

\* what an element of the page matches: the source's title_selector, the
\* alternative selector h1, or the source's content_selector
Kinds == {"title", "h1", "content"}

\* texts of elements: none, one of 4 characters between blanks, and one of
\* more than 10 characters
Texts == {"", " news ", "a long headline"}

Elements == [kind : Kinds, text : Texts]

Pages == UNION {[1..n -> Elements] : n \in 0..MaxElements}

SelectorSets ==
    [title_selector : {"title", ""}, content_selector : {"content", ""}]

\* String.prototype.trim on the texts above
Trim(text) == IF text = " news " THEN "news" ELSE text

\* querySelectorAll(selector) / $(selector), in document order
Matches(page, selector) ==
    SelectSeq(page, LAMBDA el : selector # "" /\ el.kind = selector)

\* elements.map(el => el.textContent.trim()).join(separator)
RECURSIVE Join(_, _)
Join(els, separator) ==
    IF els = <<>> THEN ""
    ELSE IF Len(els) = 1 THEN Trim(els[1].text)
    ELSE Trim(els[1].text) \o separator \o Join(Tail(els), separator)

\* the first match's trimmed text, '' when nothing matches
FirstText(page, selector) ==
    IF Matches(page, selector) = <<>> THEN ""
    ELSE Trim(Matches(page, selector)[1].text)

\* CheerioCrawler.crawl: title and content of one article page
CheerioFields(page, selectors, fullContent) ==
    [title |-> FirstText(page, selectors.title_selector),
     content |-> IF fullContent /\ selectors.content_selector # ""
                 THEN Join(Matches(page, selectors.content_selector), " ")
                 ELSE ""]

\* PuppeteerCrawler.crawl: page.evaluate returns title and content, the
\* article takes the content when fullContent is set
PuppeteerFields(page, selectors, fullContent) ==
    LET content == IF selectors.content_selector # ""
                   THEN Join(Matches(page, selectors.content_selector), " ")
                   ELSE ""
    IN  [title |-> FirstText(page, selectors.title_selector),
         content |-> IF fullContent THEN content ELSE ""]

\* the alternative title selectors, tried when title_selector matches no
\* element: the first one whose first element has more than 10 characters
AlternativeTitle(page) ==
    IF Matches(page, "h1") # <<>> /\ Len(Trim(Matches(page, "h1")[1].text)) > 10
    THEN Trim(Matches(page, "h1")[1].text)
    ELSE ""

\* UniversalCrawler.extractArticleContent: title and content of its result
UniversalFields(page, selectors, fullContent) ==
    LET title == IF selectors.title_selector = "" THEN ""
                 ELSE IF Matches(page, selectors.title_selector) # <<>>
                 THEN FirstText(page, selectors.title_selector)
                 ELSE AlternativeTitle(page)
    IN  [title |-> IF title # "" THEN title ELSE "untitled",
         content |-> IF selectors.content_selector # ""
                     THEN Join(Matches(page, selectors.content_selector),
                               "\n")
                     ELSE ""]

Fields(b, page, selectors, fullContent) ==
    CASE b = "cheerio" -> CheerioFields(page, selectors, fullContent)
      [] b = "puppeteer" -> PuppeteerFields(page, selectors, fullContent)
      [] b = "universal" -> UniversalFields(page, selectors, fullContent)

\* a page is served, to be read with the selectors of a source
LoadPage(page, selectors, fullContent) ==
    /\ ~extracts.loaded
    /\ extracts' = [extracts EXCEPT !.loaded = TRUE, !.page = page,
                                    !.selectors = selectors,
                                    !.fullContent = fullContent]
    /\ UNCHANGED hashes
    /\ PureFrame

\* extractor b reads the page
Extract(b) ==
    /\ extracts.loaded
    /\ extracts.results[b] = {}
    /\ extracts' = [extracts EXCEPT
           !.results[b] = {Fields(b, extracts.page, extracts.selectors,
                                  extracts.fullContent)}]
    /\ UNCHANGED hashes
    /\ PureFrame

NextExtract ==
    \/ \E page \in Pages, selectors \in SelectorSets, fullContent \in BOOLEAN :
          LoadPage(page, selectors, fullContent)
    \/ \E b \in Extractors : Extract(b)

SpecExtract == Quiet /\ [][NextExtract]_vars

----------------------------------------------------------------------------
(* The cluster master: forking workers and restarting them on exit *)

MasterFrame ==
    UNCHANGED <<site, articles, lastID, history, logs, run, faults, active,
                web, follow, legacy, pagePool, tests, cronVars, hashes,
                extracts, sessions, late>>

\* config.maxRestarts
maxRestarts == 5

\* the window of the restart count, in milliseconds
Hour == 3600000

\* the step of the clock, in milliseconds
HalfHour == 1800000

\* the last value of the clock, in steps
MaxNow == 3

\* restarts.filter(time => now - time < 3600000)
RecentRestarts(restarts, now) ==
    SelectSeq(restarts, LAMBDA time : (now - time) * HalfHour < Hour)

\* the key of workerRestarts under which the exit handler looks up and
\* stores the restarts of a worker: worker.id, the id cluster gave the fork
KeyOfWorker(workerId, origin) == workerId

\* for (let i = 0; i < config.workers; i++) createWorker(i): cluster.fork
\* numbers the workers 1, 2, ...
MasterStart ==
    /\ ~master.started
    /\ master' = [master EXCEPT
           !.started = TRUE,
           !.live = {[id |-> i, origin |-> i] : i \in 1..workers},
           !.nextId = workers + 1]
    /\ MasterFrame

\* cluster.on('exit') for worker w: below maxRestarts recent restarts a
\* restart is set for restartDelay later, else process.exit(1)
WorkerExit(w) ==
    /\ master.started /\ ~master.exited
    /\ w \in master.live
    /\ LET key == KeyOfWorker(w.id, w.origin)
           now == master.now
           recentRestarts == RecentRestarts(master.workerRestarts[key], now)
       IN  IF Len(recentRestarts) < maxRestarts
           THEN master' = [master EXCEPT
                    !.live = @ \ {w},
                    !.timers = @ \cup {[key |-> key, origin |-> w.origin,
                                        now |-> now,
                                        recentRestarts |-> recentRestarts]}]
           ELSE master' = [master EXCEPT !.live = {}, !.timers = {},
                                         !.exited = TRUE]
    /\ MasterFrame

\* the setTimeout callback: createWorker(workerId) forks a worker under the
\* next cluster id; recentRestarts.push(now); workerRestarts.set(workerId, ..)
RestartWorker(key) ==
    /\ ~master.exited
    /\ master.nextId <= MaxForks
    /\ \E t \in master.timers :
         /\ t.key = key
         /\ master' = [master EXCEPT
                !.timers = @ \ {t},
                !.live = @ \cup {[id |-> master.nextId, origin |-> t.origin]},
                !.nextId = @ + 1,
                !.workerRestarts[t.key] = Append(t.recentRestarts, t.now),
                !.restarted[t.origin] = Append(@, master.now)]
    /\ MasterFrame

\* the clock moves on; restartDelay (5 s) is over well within a step
Tick ==
    /\ master.started /\ ~master.exited
    /\ master.timers = {}
    /\ master.now < MaxNow
    /\ master' = [master EXCEPT !.now = @ + 1]
    /\ MasterFrame

NextMaster ==
    \/ MasterStart
    \/ \E id \in 1..MaxForks, o \in 1..workers :
          WorkerExit([id |-> id, origin |-> o])
    \/ \E key \in 1..MaxForks : RestartWorker(key)
    \/ Tick

SpecMaster == Quiet /\ [][NextMaster]_vars

----------------------------------------------------------------------------
(* UniversalCrawler.getOrCreatePage and releasePage, with the identity of
   the pages: tasks that each acquire a page, use it and release it *)

SessionFrame ==
    UNCHANGED <<site, articles, lastID, history, logs, run, active, web,
                follow, legacy, pagePool, tests, cronVars, hashes, extracts,
                master, late>>

PoolKeepsPage(idle) == idle

\* the pool after this.pagePool.pop(): the last page is taken out of it
PoolAfterPop(idle) == SubSeq(idle, 1, Len(idle) - 1)

PoolBottom(idle) == idle[1]

\* the page this.pagePool.pop() returns: the last one pushed
PoolTop(idle) == idle[Len(idle)]

\* a task calls getOrCreatePage (the tasks are numbered in the order of
\* their calls); the call runs to its first await: with a page in the pool
\* it returns this.pagePool.pop(), else it goes on to create a page
AcquireCall(c) ==
    /\ sessions.tasks[c].pc = "idle"
    /\ \A b \in TaskIds : b < c => sessions.tasks[b].pc # "idle"
    /\ IF sessions.idle # <<>>
       THEN sessions' = [sessions EXCEPT
                !.idle = PoolAfterPop(@),
                !.tasks[c] = [pc |-> "using", page |-> PoolTop(sessions.idle)]]
       ELSE sessions' = [sessions EXCEPT !.tasks[c].pc = "acquire"]
    /\ UNCHANGED faults
    /\ SessionFrame

\* the rest of getOrCreatePage: browser.newPage() gives a page (named after
\* the task that creates it) whatever the pool holds by then; a failed
\* creation throws
AcquireReturn(c) ==
    /\ sessions.tasks[c].pc = "acquire"
    /\ \/ /\ sessions' = [sessions EXCEPT
                 !.tasks[c] = [pc |-> "using", page |-> c]]
          /\ UNCHANGED faults
       \/ /\ CanFail
          /\ sessions' = [sessions EXCEPT !.tasks[c].pc = "done"]
          /\ faults' = faults + 1
    /\ SessionFrame

\* may the page be pushed once its reset has settled: checked is what
\* `this.pagePool.length < this.maxConcurrentPages` gave before the reset,
\* and nothing is checked after it
RoomAtPush(idle, checked) == checked

\* releasePage(page) up to its await: with room in the pool the reset
\* page.goto('about:blank') is begun, else the page is to be closed
ReleaseCall(c) ==
    /\ sessions.tasks[c].pc = "using"
    /\ sessions' = [sessions EXCEPT
           !.tasks[c].pc = IF Len(sessions.idle) < maxConcurrentPages
                           THEN "reset" ELSE "close"]
    /\ UNCHANGED faults
    /\ SessionFrame

ResetFailedPushes(idle, page) == Append(idle, page)

\* the pool after a reset that threw: the push is skipped, the catch block
\* does not touch this.pagePool
ResetFailed(idle, page) == idle

\* the reset has settled: this.pagePool.push(page); a failed reset goes on
\* to page.close()
ResetSettled(c) ==
    /\ sessions.tasks[c].pc = "reset"
    /\ \/ /\ IF RoomAtPush(sessions.idle, TRUE)
             THEN sessions' = [sessions EXCEPT
                      !.idle = Append(@, sessions.tasks[c].page),
                      !.tasks[c] = [pc |-> "done", page |-> NoPage]]
             ELSE sessions' = [sessions EXCEPT !.tasks[c].pc = "close"]
          /\ UNCHANGED faults
       \/ /\ CanFail
          /\ sessions' = [sessions EXCEPT
                 !.idle = ResetFailed(@, sessions.tasks[c].page),
                 !.poisoned = @ \cup {sessions.tasks[c].page},
                 !.tasks[c].pc = "close"]
          /\ faults' = faults + 1
    /\ SessionFrame

\* await page.close(): the page is destroyed; a failed close throws and
\* leaves the page to the browser
PageClose(c) ==
    /\ sessions.tasks[c].pc = "close"
    /\ \/ /\ sessions' = [sessions EXCEPT
                 !.closed = @ \cup {sessions.tasks[c].page},
                 !.tasks[c] = [pc |-> "done", page |-> NoPage]]
          /\ UNCHANGED faults
       \/ /\ CanFail
          /\ sessions' = [sessions EXCEPT
                 !.tasks[c] = [pc |-> "done", page |-> NoPage]]
          /\ faults' = faults + 1
    /\ SessionFrame

NextSessions ==
    \/ \E c \in TaskIds : AcquireCall(c)
    \/ \E c \in TaskIds : AcquireReturn(c)
    \/ \E c \in TaskIds : ReleaseCall(c)
    \/ \E c \in TaskIds : ResetSettled(c)
    \/ \E c \in TaskIds : PageClose(c)

SpecSessions == Quiet /\ [][NextSessions]_vars

\* the browser answers a page creation: newPage() settles (puppeteer fails a
\* call that gets no answer within its protocol timeout); nothing is
\* assumed about the resets and the closes of releasePage
SpecSessionsFair ==
    /\ Quiet
    /\ [][NextSessions]_vars
    /\ \A c \in TaskIds : WF_vars(AcquireReturn(c))


----------------------------------------------------------------------------
(* The opens of a URL: page.goto and its retry, in extractArticleContent,
   in testSelector and in PuppeteerCrawler.crawl *)

\* the most opens looked at together
MaxOpens == 2

\* what the page answers to the first and to the second page.goto of an
\* open: TRUE when the navigation succeeds
Answers == [1..2 -> BOOLEAN]

\* the code that opens a URL
Openers == {"extractArticleContent", "testSelector", "crawl list page",
            "crawl item page"}

\* try { goto(url, {waitUntil: 'domcontentloaded'}) }
\* catch (navError) { goto(url, {waitUntil: 'load'}) }
TwoStage(answers) ==
    IF answers[1]
    THEN [attempts |-> <<"domcontentloaded">>, failed |-> FALSE]
    ELSE [attempts |-> <<"domcontentloaded", "load">>,
          failed |-> ~answers[2]]

\* await page.goto(url, {waitUntil: 'networkidle2'})
OneStage(answers) ==
    [attempts |-> <<"networkidle2">>, failed |-> ~answers[1]]

\* the navigation each opener does
Navigate(by, answers) ==
    IF by \in {"extractArticleContent", "testSelector"}
    THEN TwoStage(answers)
    ELSE OneStage(answers)

\* one open of a URL: its navigations, and whether the open ends in the
\* opener's catch block
OpenUrl(by, url, answers) ==
    /\ Cardinality(opens) < MaxOpens
    /\ LET nav == Navigate(by, answers)
       IN  opens' = opens \cup
                      {[by |-> by, url |-> url, answers |-> answers,
                        attempts |-> nav.attempts, failed |-> nav.failed]}
    /\ UNCHANGED <<site, articles, lastID, history, logs, run, faults,
                   active, web, follow, legacy, pagePool, tests, cronVars,
                   hashes, extracts, master, sessions, sources, responses,
                   tail>>

NextOpens ==
    \E by \in Openers, url \in {"c", "g"}, answers \in Answers :
        OpenUrl(by, url, answers)

SpecOpens == Quiet /\ [][NextOpens]_vars

----------------------------------------------------------------------------
(* PUT /sources/:id next to crawlSource runs of the source *)

\* the title selectors a request may set
Selectors == {"h1", "h2"}

\* PUT /sources/:id: the UPDATE of the row (of its columns the model keeps
\* title_selector); no row changed is answered with 404
PutSource(id, selector) ==
    /\ id \in DOMAIN sources
    /\ sources' = [sources EXCEPT ![id] = selector]
    /\ UNCHANGED <<site, articles, lastID, history, logs, run, faults,
                   active, web, follow, legacy, pagePool, tests, cronVars,
                   hashes, extracts, master, sessions, opens, responses,
                   tail>>

InitEdits ==
    /\ Start
    /\ schedules = [id \in ScheduleIds |-> NoRow]
    /\ site = [s \in {1, 2} |-> IF s = 1 THEN SiteSame ELSE <<>>]
    /\ active = Runs
    /\ web = 0

NextEdits ==
    \/ \E r \in Runs, o \in {[limit |-> 100], [limit |-> 1]} :
         CrawlSource(r, 1, o)
    \/ \E r \in Runs : Step(r)
    \/ \E selector \in Selectors : PutSource(1, selector)

SpecEdits == InitEdits /\ [][NextEdits]_vars

----------------------------------------------------------------------------
(* POST /crawler/crawl *)

\* the handler up to its await: without source_id (0) it answers 400, else
\* it calls crawler.crawlSource(parseInt(source_id), {limit, crawlDepth,
\* fullContent})
PostCrawl(r, source_id, limit, depth) ==
    /\ r \in active
    /\ run[r].pc = "idle"
    /\ responses[r] = NoResponse
    /\ IF source_id = 0
       THEN /\ responses' = [responses EXCEPT
                   ![r] = [NoResponse EXCEPT !.status = 400]]
            /\ UNCHANGED <<site, articles, lastID, history, logs, run, faults,
                           active, web, follow, legacy, pagePool, tests,
                           cronVars, hashes, extracts, master, sessions,
                           opens, sources, tail>>
       ELSE CrawlSource(r, source_id,
                        [limit |-> limit, crawlDepth |-> depth,
                         fullContent |-> TRUE])

\* the `success` of the body sent after crawlSource has resolved:
\* res.json({success: true, ...})
SaysSuccess(result) == TRUE

\* the rest of the handler: the body built from the result once crawlSource
\* has resolved, or the catch block (500) when it has thrown
CrawlRespond(r) ==
    /\ responses[r] = NoResponse
    /\ run[r].pc \in {"done", "failed", "rejected", "thrown"}
    /\ responses' = [responses EXCEPT ![r] =
           IF run[r].pc = "thrown"
           THEN [status |-> 500, success |-> FALSE, new_articles |-> 0]
           ELSE [status |-> 200, success |-> SaysSuccess(run[r].result),
                 new_articles |-> run[r].result.newArticles]]
    /\ UNCHANGED <<site, articles, lastID, history, logs, run, faults,
                   active, web, follow, legacy, pagePool, tests, cronVars,
                   hashes, extracts, master, sessions, opens, sources,
                   tail>>

InitApi ==
    /\ Start
    /\ schedules = [id \in ScheduleIds |-> NoRow]
    /\ site \in Scenarios
    /\ active = {"r1"}
    /\ web = 0

NextApi ==
    \/ \E r \in Runs, source_id \in {0, 1, 2, 3, 4}, limit \in {1, 101} :
         PostCrawl(r, source_id, limit, 0)
    \/ \E r \in Runs : Step(r)
    \/ \E r \in Runs : CrawlRespond(r)

SpecApi == InitApi /\ [][NextApi]_vars

----------------------------------------------------------------------------
(* CleanupService.performCleanup(keepCount): the count of the rows, then DELETE of
   the oldest rows; the crawl runs insert meanwhile *)

\* created_at is DEFAULT CURRENT_TIMESTAMP, of a resolution of one second:
\* it grows with the id, and two successive inserts may share one value
created_at(a) == (a.id + 1) \div 2

\* SELECT id FROM articles ORDER BY created_at ASC LIMIT n: the sets of rows
\* the subquery may return (the order among equal created_at is not defined)
Oldest(rows, n) ==
    LET m == IF n < Cardinality(rows) THEN n ELSE Cardinality(rows)
    IN  {S \in SUBSET rows :
            /\ Cardinality(S) = m
            /\ \A d \in S, k \in rows \ S : created_at(d) <= created_at(k)}

\* what performCleanup leaves alone besides the tables
CleanupFrame ==
    UNCHANGED <<active, web, follow, legacy, pagePool, tests, cronVars,
                hashes, extracts, master, sessions, opens, sources,
                responses, adapter>>

\* the call, and the execution of the SELECT that counts the articles
PerformCleanup(keepCount) ==
    /\ cleanup.pc \in {"idle", "resolved", "rejected"}
    /\ \/ /\ cleanup' = [IdleCleanup EXCEPT !.pc = "counted",
                                            !.keepCount = keepCount,
                                            !.totalArticles =
                                                Cardinality(articles)]
          /\ UNCHANGED faults
       \/ /\ CanFail
          /\ cleanup' = [IdleCleanup EXCEPT !.pc = "rejected",
                                            !.keepCount = keepCount]
          /\ faults' = faults + 1
    /\ UNCHANGED <<site, articles, lastID, history, logs, run>>
    /\ CleanupFrame

\* the callback of the count: resolves when totalArticles <= keepCount,
\* issues the DELETE otherwise
CleanupCounted ==
    /\ cleanup.pc = "counted"
    /\ cleanup' =
         IF cleanup.totalArticles <= cleanup.keepCount
         THEN [cleanup EXCEPT !.pc = "resolved",
                              !.before = articles,
                              !.result = [deletedCount |-> 0,
                                          remainingCount |->
                                              cleanup.totalArticles]]
         ELSE [cleanup EXCEPT !.pc = "delete"]
    /\ UNCHANGED <<site, articles, lastID, history, logs, run, faults>>
    /\ CleanupFrame

\* the execution of the DELETE with deleteCount = totalArticles - keepCount,
\* and its callback: deletedCount is this.changes, remainingCount keepCount
CleanupDelete ==
    /\ cleanup.pc = "delete"
    /\ \/ /\ \E S \in Oldest(articles,
                             cleanup.totalArticles - cleanup.keepCount) :
               /\ articles' = articles \ S
               /\ cleanup' = [cleanup EXCEPT
                                !.pc = "resolved",
                                !.before = articles,
                                !.result = [deletedCount |-> Cardinality(S),
                                            remainingCount |->
                                                cleanup.keepCount]]
          /\ UNCHANGED faults
       \/ /\ CanFail
          /\ cleanup' = [cleanup EXCEPT !.pc = "rejected"]
          /\ faults' = faults + 1
          /\ UNCHANGED articles
    /\ UNCHANGED <<site, lastID, history, logs, run>>
    /\ CleanupFrame

KeepCounts == {1, 2}

InitCleanup ==
    /\ Start
    /\ schedules = [id \in ScheduleIds |-> NoRow]
    /\ site \in Scenarios
    /\ active = {"r1"}
    /\ web = 0

NextCleanup ==
    \/ \E r \in Runs, s \in {1, 2} : CrawlSource(r, s, [limit |-> 100])
    \/ \E r \in Runs : Step(r)
    \/ \E keepCount \in KeepCounts : PerformCleanup(keepCount)
    \/ CleanupCounted
    \/ CleanupDelete

SpecCleanup == InitCleanup /\ [][NextCleanup]_vars

----------------------------------------------------------------------------
(* DatabaseAdapter on PostgreSQL: execute, beginTransaction, commit and
   rollback of one adapter shared by the concurrent requests *)

MaxQueries == 2
MaxBegins == 1

\* client.query(text): the query joins the client's queue
Sent(a, c, op, q) ==
    [a EXCEPT !.queue[c] = Append(@, [op |-> op, by |-> q,
                                      n |-> a.req[q].sent])]

\* client.release(): the pool takes the client back; on a client that is
\* in the pool already, release throws
Released(a, c) ==
    IF a.pool[c] = "idle"
    THEN [a EXCEPT !.twice = TRUE]
    ELSE [a EXCEPT !.pool[c] = "idle"]

\* what adapter actions leave alone
AdapterFrame ==
    UNCHANGED <<site, articles, lastID, history, logs, run, faults, active,
                web, follow, legacy, pagePool, tests, cronVars, hashes,
                extracts, master, sessions, opens, sources, responses,
                cleanup>>

\* execute(query, params) up to its first await:
\* client = this.txClient || (await this.pool.connect()), client.query
Execute(q) ==
    /\ adapter.req[q].pc = "idle"
    /\ adapter.req[q].sent < MaxQueries
    /\ adapter' =
         IF adapter.txClient # NoClient
         THEN [Sent(adapter, adapter.txClient, "stmt", q) EXCEPT
                 !.req[q].pc = "query",
                 !.req[q].client = adapter.txClient]
         ELSE [adapter EXCEPT !.req[q].pc = "connect"]
    /\ AdapterFrame

\* pool.connect() resolves with a client of the pool; execute sends its
\* query on it
ExecuteConnected(q) ==
    /\ adapter.req[q].pc = "connect"
    /\ \E c \in Clients :
         /\ adapter.pool[c] = "idle"
         /\ adapter' =
              [Sent(adapter, c, "stmt", q) EXCEPT
                 !.pool[c] = "out",
                 !.req[q].pc = "query",
                 !.req[q].client = c]
    /\ AdapterFrame

\* the finally block of execute: if (!this.txClient) client.release()
ExecuteFinally(q) ==
    /\ adapter.req[q].pc = "finally"
    /\ adapter' =
         [(IF adapter.txClient = NoClient
           THEN Released(adapter, adapter.req[q].client)
           ELSE adapter) EXCEPT
            !.req[q].pc = "idle",
            !.req[q].client = NoClient,
            !.req[q].sent = @ + 1]
    /\ AdapterFrame

\* beginTransaction up to its first await: throws when this.txClient is set
BeginTransaction(q) ==
    /\ adapter.req[q].pc = "idle"
    /\ ~adapter.req[q].holds
    /\ adapter.req[q].began < MaxBegins
    /\ adapter' =
         IF adapter.txClient # NoClient
         THEN [adapter EXCEPT !.req[q].pc = "refused",
                              !.req[q].began = @ + 1]
         ELSE [adapter EXCEPT !.req[q].pc = "txconnect",
                              !.req[q].began = @ + 1]
    /\ AdapterFrame

\* this.txClient = await this.pool.connect(); this.txClient.query('BEGIN')
BeginConnected(q) ==
    /\ adapter.req[q].pc = "txconnect"
    /\ \E c \in Clients :
         /\ adapter.pool[c] = "idle"
         /\ adapter' =
              [Sent(adapter, c, "BEGIN", q) EXCEPT
                 !.pool[c] = "out",
                 !.txClient = c,
                 !.req[q].pc = "begin",
                 !.req[q].client = c]
    /\ AdapterFrame

\* commit() and rollback() up to their await: throw when this.txClient is
\* null, else this.txClient.query('COMMIT') or ('ROLLBACK')
EndTransaction(q, op) ==
    /\ adapter.req[q].pc = "idle"
    /\ adapter.req[q].holds
    /\ adapter' =
         IF adapter.txClient = NoClient
         THEN [adapter EXCEPT !.req[q].pc = "threw",
                              !.req[q].holds = FALSE]
         ELSE [Sent(adapter, adapter.txClient, op, q) EXCEPT
                 !.req[q].pc = "end",
                 !.req[q].client = adapter.txClient]
    /\ AdapterFrame

\* the finally block of commit and of rollback:
\* this.txClient.release(); this.txClient = null
\* (on a null this.txClient the call throws a TypeError)
EndFinally(q) ==
    /\ adapter.req[q].pc = "endFinally"
    /\ adapter' =
         IF adapter.txClient = NoClient
         THEN [adapter EXCEPT !.req[q].pc = "threw",
                              !.req[q].holds = FALSE,
                              !.req[q].client = NoClient]
         ELSE [Released(adapter, adapter.txClient) EXCEPT
                 !.txClient = NoClient,
                 !.req[q].pc = "idle",
                 !.req[q].holds = FALSE,
                 !.req[q].client = NoClient]
    /\ AdapterFrame

\* the server runs the next query of a client's connection, and the
\* query's promise resolves
ServerRuns(c) ==
    /\ adapter.queue[c] # <<>>
    /\ LET h == Head(adapter.queue[c])
           a == [adapter EXCEPT !.queue[c] = Tail(@)]
           row == [by |-> h.by, n |-> h.n,
                   within |-> IF adapter.inTx[c] THEN adapter.owner[c]
                              ELSE "none"]
       IN  adapter' =
             CASE h.op = "stmt" ->
                    [(IF adapter.inTx[c]
                      THEN [a EXCEPT !.pending[c] = @ \cup {row}]
                      ELSE [a EXCEPT !.committed = @ \cup {row}]) EXCEPT
                        !.req[h.by].pc = "finally"]
               [] h.op = "BEGIN" ->
                    [a EXCEPT !.inTx[c] = TRUE,
                              !.owner[c] = h.by,
                              !.req[h.by].pc = "idle",
                              !.req[h.by].holds = TRUE,
                              !.req[h.by].client = NoClient]
               [] h.op = "COMMIT" ->
                    [a EXCEPT !.inTx[c] = FALSE,
                              !.committed = @ \cup adapter.pending[c],
                              !.pending[c] = {},
                              !.req[h.by].pc = "endFinally"]
               [] h.op = "ROLLBACK" ->
                    [a EXCEPT !.inTx[c] = FALSE,
                              !.undone = @ \cup adapter.pending[c],
                              !.pending[c] = {},
                              !.req[h.by].pc = "endFinally"]
    /\ AdapterFrame

NextAdapter ==
    \/ \E q \in Requests : Execute(q)
    \/ \E q \in Requests : ExecuteConnected(q)
    \/ \E q \in Requests : ExecuteFinally(q)
    \/ \E q \in Requests : BeginTransaction(q)
    \/ \E q \in Requests : BeginConnected(q)
    \/ \E q \in Requests, op \in {"COMMIT", "ROLLBACK"} :
         EndTransaction(q, op)
    \/ \E q \in Requests : EndFinally(q)
    \/ \E c \in Clients : ServerRuns(c)

SpecAdapter == Quiet /\ [][NextAdapter]_vars

\* nothing in flight: no request inside a method, no transaction begun and
\* not ended
AtRest ==
    /\ adapter.txClient = NoClient
    /\ \A q \in Requests :
         /\ adapter.req[q].pc \in {"idle", "threw", "refused"}
         /\ ~adapter.req[q].holds
    /\ \A c \in Clients : adapter.queue[c] = <<>>

----------------------------------------------------------------------------
(* Properties *)

RECURSIVE SumNew(_)
SumNew(rs) ==
    IF rs = {} THEN 0
    ELSE LET r == CHOOSE x \in rs : TRUE
         IN  run[r].newCount + SumNew(rs \ {r})

\* the article a run saved last
SavedLast(r) == run[r].extracted[run[r].j]

Conflicts(a, row) ==
    row.link = a.link \/ row.hash = generateHash(a.title, a.link)

\* C1: in every reachable state of the article store, whatever the
\* interleaving of the saveArticle calls of the crawl runs, no two rows share
\* a link and no two rows share a fingerprint (hash).
C1_NoDuplicateRows ==
    \A a, b \in articles :
        a # b => a.link # b.link /\ a.hash # b.hash /\ a.id # b.id

\* two runs on different sources raced on one link: one insert was ignored
C1_Witness ==
    \E r, q \in Runs :
        /\ run[r].sourceId # run[q].sourceId
        /\ run[r].pc = "save" /\ run[r].j > 0
        /\ run[r].lastSave = [isNew |-> FALSE, id |-> NoId]
        /\ \E row \in articles : row.by = q /\ row.link = SavedLast(r).link

\* C2: a saveArticle whose article matches a stored row by fingerprint or by
\* link inserts nothing, reports isNew = false with the id of a matching
\* row, and leaves the run's new-article counter as it was; a match on the
\* link alone is enough.
C2_MatchIsNotNew ==
    [][\A r \in Runs :
        ( /\ run[r].pc = "save"
          /\ run[r].j < Len(run[r].extracted)
          /\ \E row \in articles : Conflicts(CurrentArticle(r), row)
          /\ run'[r] # run[r]
          /\ faults' = faults )
        => /\ articles' = articles
           /\ run'[r].pc = "save"
           /\ run'[r].j = run[r].j + 1
           /\ run'[r].newCount = run[r].newCount
           /\ run'[r].lastSave.isNew = FALSE
           /\ \E row \in articles :
                /\ Conflicts(CurrentArticle(r), row)
                /\ run'[r].lastSave.id = row.id]_vars

\* a save answered "not new" with the id of a row that has the article's
\* link under another title and another hash
C2_Witness ==
    \E r \in Runs :
        /\ run[r].pc = "save" /\ run[r].j > 0
        /\ ~run[r].lastSave.isNew
        /\ \E row \in articles :
            /\ row.id = run[r].lastSave.id
            /\ row.link = SavedLast(r).link
            /\ row.title # SavedLast(r).title
            /\ row.hash # generateHash(SavedLast(r).title, SavedLast(r).link)

\* C3: when two runs save an article with the same link or fingerprint and
\* both passed the existence check before either inserted, the insert that
\* comes second changes nothing, reports isNew = false and raises no error,
\* so its run goes on; at all times the runs' new counters add up to the
\* number of rows inserted.
C3_RaceCountsOnce ==
    /\ [](SumNew(Runs) = Cardinality(articles))
    /\ [][\A r \in Runs :
            ( /\ run[r].pc = "insert"
              /\ \E row \in articles : Conflicts(CurrentArticle(r), row)
              /\ run'[r] # run[r]
              /\ faults' = faults )
            => /\ articles' = articles
               /\ run'[r].pc = "save"
               /\ run'[r].j = run[r].j + 1
               /\ run'[r].lastSave = [isNew |-> FALSE, id |-> NoId]
               /\ run'[r].newCount = run[r].newCount]_vars

\* both runs completed; one of them had an insert ignored for a row the
\* other one inserted
C3_Witness ==
    \E r, q \in Runs :
        /\ r # q
        /\ run[r].pc = "done" /\ run[q].pc = "done"
        /\ run[r].j > 0
        /\ run[r].lastSave = [isNew |-> FALSE, id |-> NoId]
        /\ run[q].newCount > 0
        /\ \E row \in articles : row.by = q /\ Conflicts(SavedLast(r), row)

\* C4: a run that crawls a source after another run completed on the same
\* source with the same limit and the same upstream content reports zero new
\* articles (counter, result and crawl_history row) and inserts no row.
C4_SecondRunNothingNew ==
    \A r \in Runs :
        (run[r].pc = "done" /\ run[r].after # {})
        => /\ run[r].newCount = 0
           /\ run[r].result.newArticles = 0
           /\ history[r][1].new_articles = 0
           /\ \A row \in articles : row.by # r

\* the first run stored articles, the second one extracted them again
C4_Witness ==
    \E r \in Runs :
        /\ run[r].pc = "done"
        /\ Len(run[r].extracted) > 0
        /\ \E q \in run[r].after : run[q].newCount > 0


\* the four documented bounds: limit in [1,100], crawlDepth in [0,5],
\* timeout in [30000,900000] ms, waitTime in [1000,30000] ms
Violated(o) ==
    {f \in DOMAIN o :
        \/ f = "limit" /\ (o[f] < 1 \/ o[f] > 100)
        \/ f = "crawlDepth" /\ (o[f] < 0 \/ o[f] > 5)
        \/ f = "timeout" /\ (o[f] < 30000 \/ o[f] > 900000)
        \/ f = "waitTime" /\ (o[f] < 1000 \/ o[f] > 30000)}

Named(errs) == {errs[k] : k \in DOMAIN errs}

\* C5: crawlSource with options that violate a bound fails with an error
\* naming every violated bound, before the run starts: no source lookup, no
\* fetch, no log or history row, no article row.
C5_AllViolationsNamed ==
    \A r \in Runs :
        (run[r].pc # "idle" /\ Violated(run[r].opts) # {})
        => /\ run[r].pc = "rejected"
           /\ Violated(run[r].opts) \subseteq Named(run[r].errors)
           /\ ~run[r].result.success
           /\ ~run[r].touched
           /\ run[r].i = 0 /\ run[r].extracted = <<>>
           /\ logs[r] = <<>> /\ history[r] = <<>>
           /\ \A row \in articles : row.by # r

\* {limit: 0, crawlDepth: 6, timeout: 100}: all three are named
C5_Witness ==
    \E r \in Runs :
        /\ run[r].pc = "rejected"
        /\ run[r].opts = [limit |-> 0, crawlDepth |-> 6, timeout |-> 100]
        /\ run[r].errors = <<"limit", "crawlDepth", "timeout">>

\* C6 (as claimed): with five list items of which the third fails on open,
\* the run completes, records one CrawlRun with processed = 4, and reports
\* one error, as a count of its own or as found - processed.
C6_PartialFailureCounts ==
    \A r \in Runs :
        (run[r].pc = "done" /\ ListOf(r) = SiteFive /\ run[r].limit >= 5)
        => /\ Len(history[r]) = 1
           /\ history[r][1].total_processed = 4
           /\ \/ /\ "errors" \in DOMAIN history[r][1]
                 /\ history[r][1].errors = 1
              \/ /\ "errors" \in DOMAIN run[r].result
                 /\ run[r].result.errors = 1
              \/ history[r][1].total_found - history[r][1].total_processed = 1

\* C7 (as claimed): every run that started ends with exactly one
\* crawl_history row, also when it failed.
C7_OneHistoryRowPerRun ==
    \A r \in Runs :
        run[r].pc \in {"done", "failed"} => Len(history[r]) = 1

\* C8: a run-level failure never leaves crawlSource as an exception: the call
\* ends with a result carrying success = false and an error message (or
\* success = true), and a run that is still under way can take its next step
\* whatever happened to the other runs.
C8_FailureIsAResult ==
    \A r \in Runs :
        /\ run[r].pc # "thrown"
        /\ run[r].pc \in {"failed", "rejected"}
            => (~run[r].result.success /\ run[r].result.error # "")
        /\ run[r].pc = "done" => run[r].result.success
        /\ run[r].pc \notin {"idle", "done", "failed", "rejected"}
            => ENABLED Step(r)

\* one run failed and even its error log could not be written, while the
\* other run completed
C8_Witness ==
    \E r, q \in Runs :
        /\ run[r].pc = "failed"
        /\ logs[r] = <<"running">>
        /\ run[q].pc = "done"

C10_TwoPerLevel ==
    web = 10 =>
        /\ follow.maxDepth = 2 => follow.fetched <= 2
        /\ legacy.crawlDepth = 2 =>
              /\ legacy.fetched[1] <= 2
              /\ legacy.fetched[2] <= 2 * 2
              /\ legacy.fetched[3] = 0

\* C10, amended: the cap depends on the implementation. A call of
\* UniversalCrawler.crawlInternalLinks fetches at most 2 links, all at depth
\* currentDepth + 1 <= maxDepth (it does not recurse, and crawlSource
\* persists at depth 0 only); the legacy route follows at most 3 links per
\* level: per listed article at most 3 fetches at depth 1, 3 x 3 at depth 2,
\* and none beyond crawlDepth.
C10_FanOutCaps ==
    /\ follow.fetched <= 2
    /\ Len(follow.links) <= 2
    /\ \A t \in DOMAIN follow.tasks :
          follow.tasks[t].article.depth = follow.currentDepth + 1
    /\ \A row \in articles : row.by \in Runs => row.depth = 0
    /\ \A d \in 1..3 :
          legacy.fetched[d] <= IF d <= legacy.crawlDepth THEN 3 ^ d ELSE 0
    /\ \A k \in DOMAIN legacy.stack : Len(legacy.stack[k].links) <= 3

\* a legacy request with depth 2 on pages with 10 anchors has followed 3
\* links at depth 1 and 9 at depth 2 for one listed article
C10_Witness ==
    /\ web = 10
    /\ legacy.crawlDepth = 2
    /\ legacy.fetched = <<3, 9, 0>>
    /\ legacy.pc = "responded"

\* C11: first write wins: once an article row exists, every later step of
\* any run, follow-up task or request (a saveArticle for the same link or
\* fingerprint included) leaves it as it is, title, content, source and
\* depth, and no other row with its link or fingerprint appears.
C11_FirstWriteWins ==
    [][\A a \in articles :
          /\ a \in articles'
          /\ \A b \in articles' :
                (b.link = a.link \/ b.hash = a.hash) => b = a]_vars

\* crawlSource stored link "c" at depth 0; afterwards a follow-up task
\* reached the same link at depth 2, saved nothing, and the row is as it was
C11_Witness ==
    /\ \E row \in articles :
          row.by = "r1" /\ row.link = "c" /\ row.depth = 0
    /\ \E t \in DOMAIN follow.tasks :
          /\ follow.tasks[t].pc = "fulfilled"
          /\ ~follow.tasks[t].value
          /\ follow.tasks[t].article.link = "c"
          /\ follow.tasks[t].article.title = "a"
          /\ follow.tasks[t].article.depth = 2

\* C12 (as claimed): at any time the pages in use by follow-up tasks and
\* selector tests on one crawler are no more than the pool cap,
\* maxConcurrentPages.
C12_InUseWithinCap == InUse <= maxConcurrentPages

\* C20 (as claimed): a testSelector call that has returned, whatever its
\* outcome, holds no page and has left the idle pool as it found it.
C20_TestLeavesPoolAsItWas ==
    \A t \in TestIds :
        tests[t].pc = "returned" => (~tests[t].page /\ tests[t].taken = 0)

\* the columns of a schedule row that a request sets (all but last_run)
Parameters(row) == [row EXCEPT !.last_run = 0]

\* C13: every schedule id has at most one live cron job at any time; when
\* the update route calls startJob, the job registered before is stopped
\* and the only live job of the id afterwards is the new one, created from
\* the row read after the UPDATE (the row as stored, when no other request
\* on the schedule routes has acted).
C13_OneLiveJob ==
    [][/\ \A id \in ScheduleIds : Cardinality(LiveJobs(id))' <= 1
       /\ \A u \in PutIds :
            (puts[u].pc = "start" /\ puts'[u].pc = "done"
             /\ puts[u].schedule # {})
            => LET id == puts[u].id
                   new == Len(scheduler'.tasks)
               IN  /\ new = Len(scheduler.tasks) + 1
                   /\ LiveJobs(id)' = {new}
                   /\ scheduler'.jobs[id] = new
                   /\ scheduler'.tasks[new].schedule \in puts[u].schedule
                   /\ (\A v \in PutIds \ {u} : puts[v].pc = "idle")
                      => Parameters(scheduler'.tasks[new].schedule.row)
                           = Parameters(schedules'[id])]_vars

\* schedule 1 was Running from startup; an update with another cron
\* expression has returned: the first job is stopped, the second is live
C13_Witness ==
    /\ \E u \in PutIds : puts[u].pc = "done" /\ puts[u].route = "put"
    /\ Len(scheduler.tasks) = 2
    /\ scheduler.tasks[1].id = 1 /\ ~scheduler.tasks[1].live
    /\ scheduler.tasks[2].id = 1 /\ scheduler.tasks[2].live
    /\ scheduler.tasks[1].schedule.row.cron_expression = "*/10 * * * *"
    /\ scheduler.tasks[2].schedule.row.cron_expression = "0 * * * *"
    /\ scheduler.jobs[1] = 2

\* C14: when stopJob(id) has returned, no job is registered for the id and
\* none of its tasks is live; a cron fire only ever starts from the live,
\* registered job of its schedule, so a stopped schedule fires no crawl
\* until startJob registers a job again; stopJob for an id without a
\* registered job leaves the scheduler as it was.
C14_StoppedMeansNoFire ==
    [][/\ \A u \in PutIds :
            \/ puts[u].pc = "updated" /\ puts'[u].pc = "done"
               /\ ~puts[u].is_active
            \/ puts[u].pc = "idle" /\ puts'[u].pc = "deleting"
            => LET id == puts'[u].id
               IN  /\ scheduler'.jobs[id] = NoJob
                   /\ \A j \in DOMAIN scheduler'.tasks :
                        scheduler'.tasks[j].id = id
                        => ~scheduler'.tasks[j].live
                   /\ scheduler.jobs[id] = NoJob => scheduler' = scheduler
       /\ \A r \in Runs :
            (calls[r].pc = "none" /\ calls'[r].kind = "cron")
            => /\ scheduler.jobs[calls'[r].id] = calls'[r].job
               /\ calls'[r].job # NoJob
               /\ scheduler.tasks[calls'[r].job].live]_vars

\* schedule 1 was Running from startup and had fired once; an update with
\* is_active false has returned: the job is stopped and unregistered
C14_Witness ==
    /\ \E u \in PutIds :
          /\ puts[u].pc = "done" /\ puts[u].route = "put"
          /\ puts[u].id = 1 /\ ~puts[u].is_active
    /\ Len(scheduler.tasks) = 1
    /\ ~scheduler.tasks[1].live
    /\ scheduler.jobs[1] = NoJob
    /\ calls["r1"].kind = "cron" /\ calls["r1"].job = 1

\* C15: a cron fire builds its crawl options and its source id from the
\* schedule row as stored at the moment the callback reads it, not from the
\* row in the closure of the job; a fire of a job started with one
\* article_limit, after an update to another, crawls with the new limit.
C15_FreshOptions ==
    [][\A r \in Runs :
         (calls[r].pc = "read" /\ calls'[r].pc = "crawl"
          /\ calls[r].kind = "cron")
         => /\ schedules[calls[r].id].exists
            /\ calls'[r].opts = crawlOptions(schedules[calls[r].id])
            /\ calls'[r].source = schedules[calls[r].id].source_id]_vars

\* the only job of schedule 1 was started with article_limit 1, the row
\* was updated by a request that did not restart the job (its startJob is
\* still to come), and a fire of that job crawls with the new limit 101
C15_Witness ==
    /\ Len(scheduler.tasks) = 1
    /\ scheduler.tasks[1].live
    /\ scheduler.tasks[1].schedule.row.article_limit = 1
    /\ calls["r1"].kind = "cron" /\ calls["r1"].job = 1
    /\ calls["r1"].pc = "crawl"
    /\ calls["r1"].opts.limit = 101
    /\ run["r1"].pc # "idle"
    /\ run["r1"].opts.limit = 101

\* C16: last_run of a schedule changes only in the step that follows the
\* completion of the crawl of a cron fire or manual run of that schedule,
\* never while the crawl has not started or is under way; and once the
\* crawl has completed, with success or with failure, the write is made
\* (it can only be lost to a missing row or a failing UPDATE).
C16_LastRunAfterCrawl ==
    [][/\ \A id \in ScheduleIds :
            (schedules'[id].exists
             /\ schedules'[id].last_run # schedules[id].last_run)
            => \E r \in Runs :
                  /\ calls[r].id = id
                  /\ calls[r].pc = "crawl" /\ calls'[r].pc = "end"
                  /\ run[r].pc \in {"done", "failed", "rejected"}
                  /\ schedules'[id].last_run = schedules[id].last_run + 1
       /\ \A r \in Runs :
            (calls[r].pc = "crawl" /\ calls'[r].pc = "end")
            => /\ run[r].pc \in {"done", "failed", "rejected"}
               /\ \/ schedules'[calls[r].id].last_run
                       = schedules[calls[r].id].last_run + 1
                  \/ ~schedules[calls[r].id].exists
                  \/ faults' = faults + 1]_vars

\* two fires of schedule 1: the crawl of one succeeded, the crawl of the
\* other failed, and each wrote last_run after its crawl
C16_Witness ==
    /\ calls["r1"].pc = "end" /\ calls["r1"].wrote /\ calls["r1"].id = 1
    /\ run["r1"].pc = "done" /\ run["r1"].result.success
    /\ calls["r2"].pc = "end" /\ calls["r2"].wrote /\ calls["r2"].id = 1
    /\ run["r2"].pc = "failed" /\ ~run["r2"].result.success
    /\ schedules[1].last_run = 2

\* C17: runJob(scheduleId) returns as soon as its crawl has been launched,
\* whatever the crawl has reached by then; the crawl it launches is called
\* with the source id and the options built from the schedule row as read
\* by this call, and last_run is written by it only after that crawl has
\* completed; a runJob for an id without a row launches no crawl.
C17_RunJobFireAndForget ==
    /\ [](\A r \in Runs :
            (calls[r].kind = "manual" /\ calls[r].pc \in {"crawl", "end"}
             /\ calls[r].source # 0 /\ run[r].pc # "idle"
             /\ ~calls[r].returned)
            => ENABLED RunJobReturn(r))
    /\ [][\A r \in Runs :
         calls'[r].kind = "manual" =>
           /\ (calls[r].pc = "read" /\ calls'[r].pc = "crawl")
              => /\ schedules[calls[r].id].exists
                 /\ calls'[r].opts = crawlOptions(schedules[calls[r].id])
                 /\ calls'[r].source = schedules[calls[r].id].source_id
           /\ (run[r].pc = "idle" /\ run'[r].pc # "idle")
              => /\ calls[r].pc = "crawl"
                 /\ run'[r].opts = calls[r].opts
                 /\ run'[r].sourceId = calls[r].source
           /\ (calls[r].pc = "read" /\ calls'[r].pc # "read"
               /\ ~schedules[calls[r].id].exists)
              => (calls'[r].pc = "end" /\ calls'[r].source = 0
                  /\ run'[r].pc = "idle")
           /\ (calls'[r].wrote /\ ~calls[r].wrote)
              => run[r].pc \in {"done", "failed", "rejected"}]_vars

\* a manual run of schedule 1 has returned to its caller while its crawl
\* is still under way, and a manual run of schedule 2, which has no row,
\* has returned without a crawl
C17_Witness ==
    /\ calls["r1"].kind = "manual" /\ calls["r1"].id = 1
    /\ calls["r1"].returned /\ calls["r1"].pc = "crawl"
    /\ run["r1"].pc = "items"
    /\ calls["r2"].kind = "manual" /\ calls["r2"].id = 2
    /\ calls["r2"].returned /\ calls["r2"].pc = "end"
    /\ run["r2"].pc = "idle"

\* C18 (as claimed): the fingerprint is a function of exactly the
\* (title, link) pair: two hashed pairs have the same fingerprint if and
\* only if they are the same pair.
C18_FingerprintOfPair ==
    \A x \in hashes : \A y \in hashes :
        (x.hash = y.hash) <=> (x.title = y.title /\ x.link = y.link)

\* C19 (as claimed): on the same page with the same selector set, every
\* extractor returns the same title and content, also where the title
\* selector matches nothing and the alternative title selectors apply.
C19_SameFields ==
    \A b \in Extractors : \A c \in Extractors :
        (extracts.results[b] # {} /\ extracts.results[c] # {})
        => extracts.results[b] = extracts.results[c]

\* C21 (as claimed): the master restarts a failed worker at most
\* maxRestarts times within any one hour: of the restarts made for one of
\* the initial workers and its successors, no more than maxRestarts lie in
\* the last hour.
C21_RestartsWithinLimit ==
    \A o \in 1..workers :
        Len(RecentRestarts(master.restarted[o], master.now)) <= maxRestarts

C23_IdleWithinCap == Len(sessions.idle) <= maxConcurrentPages

\* the pages in the pool
IdlePages == {sessions.idle[i] : i \in 1..Len(sessions.idle)}

\* C24: a page whose reset failed during releasePage is not in the pool and
\* is not in the hands of any task that acquired a page; the task that
\* released it is at page.close() or past it.
C24_FailedResetNotPooled ==
    \A p \in sessions.poisoned :
        /\ p \notin IdlePages
        /\ \A c \in TaskIds :
               sessions.tasks[c].page = p => sessions.tasks[c].pc = "close"

\* a page's reset has failed and the page was closed, while another task
\* works on a page it took from the pool
C24_Witness ==
    \E p \in sessions.poisoned :
        /\ p \in sessions.closed
        /\ \E c \in TaskIds : /\ sessions.tasks[c].pc = "using"
                              /\ sessions.tasks[c].page # c

\* the pages some task has in hand
HeldPages ==
    {sessions.tasks[c].page : c \in {d \in TaskIds :
                                        sessions.tasks[d].page # NoPage}}

\* C25: getOrCreatePage never waits for another caller. A call that finds a
\* page in the pool returns at once with the page pushed last; a call that
\* finds none can always finish by itself, with a page that is new (in no
\* pool, in no task's hands, never closed); and every call that has begun
\* to create a page comes to an end (each task calls once, so from some
\* point on no call is pending), also while resets of releasePage stay
\* unfinished for ever.
C25_AcquireNeverWaits ==
    /\ [](\A c \in TaskIds :
              sessions.tasks[c].pc = "acquire" => ENABLED AcquireReturn(c))
    /\ [][\A c \in TaskIds :
              /\ (sessions.tasks[c].pc = "idle"
                    /\ sessions'.tasks[c].pc # "idle"
                    /\ sessions.idle # <<>>)
                 => /\ sessions'.tasks[c].pc = "using"
                    /\ sessions'.tasks[c].page
                           = sessions.idle[Len(sessions.idle)]
              /\ (sessions.tasks[c].pc = "acquire"
                    /\ sessions'.tasks[c].pc = "using")
                 => sessions'.tasks[c].page
                        \notin (IdlePages \cup HeldPages
                                  \cup sessions.closed \cup sessions.poisoned)
       ]_vars
    /\ <>[](\A c \in TaskIds : sessions.tasks[c].pc # "acquire")

\* a task got a new page while another task's reset was under way, and a
\* third took a page out of a pool that held two
C25_Witness ==
    \E c, d, e \in TaskIds :
        /\ c < d
        /\ sessions.tasks[c].pc = "reset"
        /\ sessions.tasks[d].pc = "using" /\ sessions.tasks[d].page = d
        /\ sessions.tasks[e].pc = "using" /\ sessions.tasks[e].page # e
        /\ sessions.idle # <<>>

\* C26: no page is in the hands of two tasks, no page a task has in hand (in
\* use, being reset or being closed) is in the pool, and the pool holds no
\* page twice.
C26_OneHolder ==
    /\ \A c, d \in TaskIds :
           (c # d /\ sessions.tasks[c].page # NoPage)
               => sessions.tasks[c].page # sessions.tasks[d].page
    /\ HeldPages \cap IdlePages = {}
    /\ \A i, j \in 1..Len(sessions.idle) :
           i # j => sessions.idle[i] # sessions.idle[j]

\* two tasks work at once, one of them on a page taken from the pool, while
\* a third page is being reset and the pool holds a page
C26_Witness ==
    \E c, d, e \in TaskIds :
        /\ c # d
        /\ sessions.tasks[c].pc = "using" /\ sessions.tasks[c].page # c
        /\ sessions.tasks[d].pc = "using"
        /\ sessions.tasks[e].pc = "reset"
        /\ Len(sessions.idle) >= 1

\* one step of the task t of the current chunk
TaskStep(t) ==
    \/ TaskAcquire(t)
    \/ TaskExtract(t)
    \/ TaskCheck(t)
    \/ TaskInsert(t)
    \/ TaskRelease(t)
    \/ TaskReset(t)

\* C27: in a chunk of follow-up tasks every task at work has a page of its
\* own call of getOrCreatePage; a task that is rejected leaves the other
\* tasks of the chunk as they are, and a task that is not settled can always
\* take its next step; the loop moves on only when every task of the chunk
\* is settled, and it then adds to the results the articles of the
\* fulfilled tasks that returned one, those of a rejected task's siblings
\* included; every call that started a chunk returns.
C27_FailuresIsolated ==
    /\ [](follow.pc = "chunk" =>
            \A t \in DOMAIN follow.tasks :
                /\ follow.tasks[t].pc \in {"extract", "check", "insert",
                                           "release", "reset"}
                   => follow.tasks[t].page = "held"
                /\ ~Settled(follow.tasks[t]) => ENABLED TaskStep(t))
    /\ [][follow.pc = "chunk" =>
            /\ \A t, u \in DOMAIN follow.tasks :
                 (/\ t # u
                  /\ follow'.pc = "chunk" /\ follow'.i = follow.i
                  /\ follow.tasks[t].pc # "rejected"
                  /\ follow'.tasks[t].pc = "rejected")
                 => follow'.tasks[u] = follow.tasks[u]
            /\ (follow'.i # follow.i \/ follow'.pc # "chunk")
               => /\ \A t \in DOMAIN follow.tasks : Settled(follow.tasks[t])
                  /\ LET ok == SelectSeq(follow.tasks,
                                   LAMBDA t : t.pc = "fulfilled" /\ t.value)
                     IN  follow'.results
                           = follow.results
                               \o [k \in 1..Len(ok) |-> ok[k].article]
       ]_vars
    /\ (follow.pc = "chunk") ~> (follow.pc = "returned")

\* one task of the chunk was rejected and the other is fulfilled with a new
\* article
C27_Witness ==
    /\ follow.pc = "chunk"
    /\ \E t, u \in DOMAIN follow.tasks :
         /\ follow.tasks[t].pc = "rejected"
         /\ follow.tasks[u].pc = "fulfilled"
         /\ follow.tasks[u].value

\* is the crawl of call q under way
Crawling(q) ==
    /\ calls[q].pc = "crawl"
    /\ run[q].pc \notin {"idle", "done", "failed", "rejected", "thrown"}

\* C28: a fire of a cron job is not held back by a crawl: while the crawl
\* of an earlier fire is under way, a live job (the same one or another)
\* can fire again, and the new fire can start its crawl, of the same source
\* too.
C28_FireDoesNotWait ==
    \A q, r \in Runs :
        (q # r /\ r \in active /\ calls[q].kind = "cron" /\ Crawling(q))
        => /\ (calls[r].pc = "none"
                 /\ \E j \in DOMAIN scheduler.tasks : scheduler.tasks[j].live)
              => ENABLED CronFire(r)
           /\ (calls[r].kind = "cron" /\ calls[r].pc = "crawl"
                 /\ run[r].pc = "idle")
              => ENABLED FireCrawl(r)

\* two fires of one job are in flight, and both crawl the same source
C28_Witness ==
    /\ calls["r1"].kind = "cron" /\ calls["r2"].kind = "cron"
    /\ calls["r1"].job = calls["r2"].job
    /\ Crawling("r1") /\ Crawling("r2")
    /\ run["r1"].sourceId = run["r2"].sourceId
    /\ run["r1"].pc = "items" /\ run["r2"].pc = "items"

\* C29: the phases of a run follow one another. A crawlSource run opens no
\* item page before the list page has given its links, reads every item
\* page of the run before it saves the first article, saves only articles
\* it has extracted, and starts no follow-up at all (its rows have depth
\* 0); the route /api/farsnews follows the links of a listed article only
\* after the page of that article was read, its follow-up starting from the
\* links that reading gave.
C29_PhasesInOrder ==
    /\ [](/\ \A r \in Runs :
               /\ run[r].pc \in {"idle", "getSource", "logStart", "open"}
                  => /\ run[r].i = 0
                     /\ run[r].extracted = <<>>
               /\ run[r].pc \in {"idle", "getSource", "logStart", "open",
                                 "items", "release", "releaseThrow"}
                  => /\ run[r].j = 0
                     /\ \A a \in articles : a.by # r
               /\ run[r].pc \in {"save", "insert"}
                  => run[r].i = ItemBound(r)
               /\ \A a \in articles :
                    a.by = r
                    => /\ a.depth = 0
                       /\ \E k \in 1..Len(run[r].extracted) :
                            /\ run[r].extracted[k].link = a.link
                            /\ k <= run[r].j + 1
          /\ legacy.pc = "crawl"
             => /\ legacy.phase = "seed"
                /\ legacy.cur.link = legacy.list[legacy.i + 1].link
                /\ legacy.stack[1].links = LegacyLinksToFollow(legacy.links)
                /\ legacy.stack[1].depth = 0)
    /\ [][/\ \A r \in Runs :
               /\ run'[r].i # run[r].i => run[r].pc = "items"
               /\ (run'[r].pc = "items" /\ run[r].pc # "items")
                  => run[r].pc = "open"
               /\ run'[r].j # run[r].j => run[r].pc \in {"save", "insert"}
          /\ legacy'.fetched # legacy.fetched
             => (legacy.pc = "crawl"
                 \/ (legacy'.pc = "crawl" /\ legacy'.fetched = NoFetches))
          /\ legacy'.links # legacy.links => legacy.pc = "article"
       ]_vars

\* a run with crawlDepth 2 has read both item pages of its list and is
\* saving the second article after the first
C29_Witness ==
    /\ run["r1"].pc = "insert"
    /\ run["r1"].crawlDepth = 2
    /\ run["r1"].i = 2 /\ run["r1"].j = 1
    /\ \E a \in articles : a.by = "r1"

\* C30: the item pages a run has opened are the first candidates of its
\* list page, in the order of the list, and never more than its limit; no
\* candidate past the limit is opened, and the run extracts no more
\* articles than its limit, each from a page it opened.
C30_WithinLimit ==
    \A r \in Runs :
        run[r].opened # <<>> =>
            /\ Len(run[r].opened) <= run[r].limit
            /\ Len(run[r].opened) <= Len(ListOf(r))
            /\ \A k \in 1..Len(run[r].opened) :
                 run[r].opened[k] = ListOf(r)[k].link
            /\ Len(run[r].extracted) <= Len(run[r].opened)
            /\ Len(run[r].extracted) <= run[r].limit
            /\ \A k \in 1..Len(run[r].extracted) :
                 \E n \in 1..Len(run[r].opened) :
                     run[r].extracted[k].link = run[r].opened[n]

\* a run with limit 1 on a list of five candidates has ended after it
\* opened the first candidate alone
C30_Witness ==
    \E r \in Runs :
        /\ run[r].pc = "done"
        /\ run[r].limit = 1
        /\ Len(ListOf(r)) = 5
        /\ run[r].opened = <<ListOf(r)[1].link>>
        /\ Len(run[r].extracted) = 1

\* C31 (as claimed): no article row is written for an item that gave no
\* title: no row has an empty title, the title that stands for a missing
\* one, or the title that stands for a page that could not be opened.
C31_NoRowWithoutTitle ==
    \A a \in articles : a.title \notin {"", "untitled", "extract error"}

\* C32 (as claimed): every open navigates in two stages: first with the
\* wait condition domcontentloaded; with load once more, only after the
\* first navigation failed; the open fails only after both failed; and no
\* open navigates more than twice.
C32_TwoStageNavigation ==
    \A o \in opens :
        /\ Len(o.attempts) <= 2
        /\ o.attempts[1] = "domcontentloaded"
        /\ Len(o.attempts) = 2 <=> ~o.answers[1]
        /\ Len(o.attempts) = 2 => o.attempts[2] = "load"
        /\ o.failed <=> (~o.answers[1] /\ ~o.answers[2])

\* C33: a run takes the selectors of its source once, when getSource
\* answers, as the row holds them then; every item page of the run is read
\* with those, whatever PUT /sources/:id has written since.
C33_SelectorsOfRunStart ==
    /\ [](\A r \in Runs :
            \A k \in 1..Len(run[r].used) : run[r].used[k] = run[r].selector)
    /\ [][\A r \in Runs :
            /\ (run[r].pc = "getSource" /\ run'[r].pc = "logStart")
               => run'[r].selector = sources[run[r].sourceId]
            /\ run[r].pc # "getSource"
               => run'[r].selector = run[r].selector
            /\ Len(run'[r].used) > Len(run[r].used)
               => run'[r].used = Append(run[r].used, run[r].selector)
       ]_vars

\* the source was edited while r1 was between its two item pages; r2,
\* started after the edit, reads its pages with the new selector
C33_Witness ==
    /\ run["r1"].pc = "items" /\ run["r1"].used = <<"h1">>
    /\ sources[1] = "h2"
    /\ run["r2"].pc = "items" /\ run["r2"].used = <<"h2">>

\* C34 (as claimed): the response of POST /crawler/crawl says success only
\* when the result of crawlSource says success.
C34_SuccessOnlyWhenCrawlSucceeded ==
    \A r \in Runs :
        (responses[r].status # 0 /\ responses[r].success)
            => run[r].result.success

\* C35: a crawlSource call for an id that has no row, or whose row is not
\* active, makes no crawler, opens no page and inserts no row, and it ends
\* with a failure result.
C35_NoSourceNoCrawl ==
    \A r \in Runs :
        (run[r].pc \notin {"idle", "rejected"}
           /\ (run[r].sourceId \in DOMAIN SourceTable
                 => ~SourceTable[run[r].sourceId].active))
        => /\ ~run[r].created
           /\ run[r].page = "none"
           /\ run[r].opened = <<>> /\ run[r].i = 0
           /\ run[r].extracted = <<>>
           /\ \A a \in articles : a.by # r
           /\ run[r].pc \in {"getSource", "outerCatch", "failed"}
           /\ run[r].pc = "failed"
              => (~run[r].result.success /\ run[r].result.error # "")

\* one call for the inactive source 3 and one for the id 4, which has no
\* row, have both ended
C35_Witness ==
    \E r, q \in Runs :
        /\ run[r].pc = "failed" /\ run[r].sourceId = 3
        /\ run[q].pc = "failed" /\ run[q].sourceId = 4
        /\ run[r].result.error = "not found"

\* C36 (as claimed): once a DELETE /schedules/:id request has completed and
\* the row is gone, no cron job is registered for the id again (the jobs
\* of the stored schedules being loaded), whatever a concurrent
\* PUT /schedules/:id does; and a fire that finds no row starts no crawl.
C36_DeletedMeansNoJob ==
    [][/\ \A u \in PutIds :
            (/\ puts[u].route = "delete" /\ puts[u].pc = "done"
             /\ ~schedules[puts[u].id].exists
             /\ scheduler.loaded
             /\ \A j \in DOMAIN scheduler.tasks :
                    scheduler.tasks[j].id = puts[u].id
                        => ~scheduler.tasks[j].live)
            => \A j \in DOMAIN scheduler'.tasks :
                    scheduler'.tasks[j].id = puts[u].id
                        => ~scheduler'.tasks[j].live
       /\ \A r \in Runs :
            (calls[r].kind = "cron" /\ calls[r].pc = "read"
               /\ calls'[r].pc # "read" /\ ~schedules[calls[r].id].exists)
            => (calls'[r].pc = "end" /\ run'[r].pc = "idle")
      ]_vars

\* C37 (as claimed): when performCleanup(keep) resolves, it has deleted
\* nothing if the store held at most keep articles; it has deleted only
\* rows that are no newer than any row left; the store holds at most keep
\* articles; and the remainingCount reported is the number of rows stored,
\* also when a crawl run inserted articles after the count.
C37_CleanupKeepsTheNewest ==
    [][(cleanup.pc # "resolved" /\ cleanup'.pc = "resolved")
        => /\ Cardinality(articles) <= cleanup.keepCount
                => articles' = articles
           /\ articles' \subseteq articles
           /\ \A d \in articles \ articles', k \in articles' :
                 created_at(d) <= created_at(k)
           /\ Cardinality(articles') <= cleanup.keepCount
           /\ cleanup'.result.remainingCount = Cardinality(articles')
           /\ cleanup'.result.deletedCount
                 = Cardinality(articles \ articles')
      ]_vars

\* C38 (as claimed): no release() is ever called on a client that is in the
\* pool already, and when no adapter method is in progress and no
\* transaction is open, every client is back in the pool: each client taken
\* by execute or by beginTransaction has been released exactly once.
C38_EveryClientReleasedOnce ==
    /\ ~adapter.twice
    /\ AtRest => \A c \in Clients : adapter.pool[c] = "idle"

\* C39 (as claimed): a statement the server runs inside a transaction is a
\* statement of the request that began it, so a rollback undoes only the
\* beginner's statements; and beginTransaction called while this.txClient
\* is set is refused and leaves the transaction, the pool and the queues
\* as they were.
C39_TransactionIsItsBeginners ==
    [][/\ \A c \in Clients : \A row \in adapter'.pending[c] :
             row.within = row.by
       /\ \A row \in adapter'.undone : row.within = row.by
       /\ \A q \in Requests :
            (/\ adapter.txClient # NoClient
             /\ adapter'.req[q].began > adapter.req[q].began)
            => /\ adapter'.req[q].pc = "refused"
               /\ adapter'.txClient = adapter.txClient
               /\ adapter'.pool = adapter.pool
               /\ adapter'.queue = adapter.queue
               /\ adapter'.inTx = adapter.inTx
               /\ adapter'.pending = adapter.pending
      ]_vars

=============================================================================
